---- MODULE Spec2Model ----
(***************************************************************************)
(* Model of the 6PACK transport engine of chat_app/sixpack_protocol_example *)
(* (SixPackFrame codec and SixPackTNC engine).                              *)
(***************************************************************************)
EXTENDS Integers, Sequences, FiniteSets, TLC

VARIABLES
    tx_sequence,        \* SixPackTNC.tx_sequence: next sequence per channel
    rx_sequence,        \* SixPackTNC.rx_sequence: next expected sequence per channel
    pending_acks,       \* SixPackTNC.pending_acks, in dict (insertion) order
    tx_queue,           \* SixPackTNC.tx_queue: the heap list of queue.PriorityQueue
    on_data_received,   \* TRUE when a data callback is set
    on_status_response, \* TRUE when a status callback is set
    running,            \* SixPackTNC.running
    buffer,             \* the receive thread's accumulation buffer
    stats,              \* SixPackTNC.stats
    now,                \* time.time(), in seconds
    events,             \* transport writes and callback calls, in program order
    dispatched,         \* frames handed to _process_received_frame, in order, each with
                        \* whether a data callback was set at that moment
    drained,            \* frames taken by tx_queue.get(), in order; ok is FALSE when
                        \* the get raised and the frame was lost
    result,             \* outcome of the last application call
    codec,              \* a frame on its way through pack / unpack
    serial_port,        \* the transport: the bytes that arrive on it, how many of
                        \* them were read, and the calls of it that raised an error
    pc                  \* where send_data and _check_timeouts stand when they
                        \* are followed statement by statement, with their locals

vars == <<tx_sequence, rx_sequence, pending_acks, tx_queue, on_data_received,
          on_status_response, running, buffer, stats, now, events, dispatched,
          drained, result, codec, serial_port, pc>>

engine_vars == <<tx_sequence, rx_sequence, pending_acks, tx_queue, on_data_received,
                 on_status_response, running, buffer, stats, now, events, dispatched,
                 drained, result, serial_port, pc>>

----------------------------------------------------------------------------
(* Program constants *)

DATA == 0
ACK == 1
NACK == 2
STATUS == 3
CONFIG == 4
RESET == 5
TEST == 6
BEACON == 7
SixPackCommands == {DATA, ACK, NACK, STATUS, CONFIG, RESET, TEST, BEACON}

LOW == 0
NORMAL == 1
HIGH == 2
URGENT == 3
Priority == {LOW, NORMAL, HIGH, URGENT}

max_channels == 16
ack_timeout == 5
max_retries == 3
MinFrameSize == 5
MaxBufferedFrame == 256

----------------------------------------------------------------------------
(* Bit arithmetic on non-negative integers *)

RECURSIVE BitXor(_, _)
BitXor(a, b) ==
    IF a = 0 THEN b
    ELSE IF b = 0 THEN a
    ELSE ((a + b) % 2) + 2 * BitXor(a \div 2, b \div 2)

RECURSIVE BitAnd(_, _)
BitAnd(a, b) ==
    IF a = 0 \/ b = 0 THEN 0
    ELSE ((a % 2) * (b % 2)) + 2 * BitAnd(a \div 2, b \div 2)

RECURSIVE BitOr(_, _)
BitOr(a, b) ==
    IF a = 0 THEN b
    ELSE IF b = 0 THEN a
    ELSE (IF a % 2 = 1 \/ b % 2 = 1 THEN 1 ELSE 0) + 2 * BitOr(a \div 2, b \div 2)

Pow2(n) == 2 ^ n

ShiftLeft(a, n) == a * Pow2(n)
ShiftRight(a, n) == a \div Pow2(n)

----------------------------------------------------------------------------
(* SixPackFrame *)

SixPackFrame(command, channel, priority, sequence, data, crc) ==
    [sync |-> 0, command |-> command, channel |-> channel, priority |-> priority,
     sequence |-> sequence, data |-> data, crc |-> crc]

\* struct.pack('BBB', sync, cmd_byte, sequence)
pack_header(frame) ==
    LET cmd_byte == BitOr(BitOr(ShiftLeft(frame.channel, 4), ShiftLeft(frame.priority, 2)),
                          BitAnd(frame.command, 3))
    IN  <<frame.sync, cmd_byte, frame.sequence>>

\* x ^ (1 << k)
FlipBit(x, k) ==
    IF ShiftRight(x, k) % 2 = 1 THEN x - Pow2(k) ELSE x + Pow2(k)

\* x ^ 0x1021: bits 12, 5 and 0 flipped
Xor1021(x) == FlipBit(FlipBit(FlipBit(x, 12), 5), 0)

\* the inner "for _ in range(8)" loop, n passes left
RECURSIVE crc_bits(_, _)
crc_bits(crc, n) ==
    IF n = 0 THEN crc
    ELSE IF ShiftRight(crc, 15) % 2 = 1
         THEN crc_bits((Xor1021(ShiftLeft(crc, 1))) % 65536, n - 1)
         ELSE crc_bits((ShiftLeft(crc, 1)) % 65536, n - 1)

\* the outer "for byte in data" loop over bytes lo..hi; crc ^= byte << 8
\* changes the high byte of crc only
RECURSIVE crc_run(_, _, _, _)
crc_run(crc, data, lo, hi) ==
    IF lo > hi THEN crc
    ELSE crc_run(crc_bits(ShiftLeft(BitXor(ShiftRight(crc, 8), data[lo]), 8) + (crc % 256), 8),
                 data, lo + 1, hi)

\* the same loop from byte i0 to the end, the bytes taken in runs of 8 so
\* that a long payload is evaluated without deep nesting
crc_bytes(crc0, data, i0) ==
    LET g[crc \in 0..65535, i \in i0..(Len(data) + 8)] ==
            IF i > Len(data) THEN crc
            ELSE g[crc_run(crc, data, i, IF i + 7 < Len(data) THEN i + 7 ELSE Len(data)),
                   i + 8]
    IN  g[crc0, i0]

\* a checksum that leaves the payload out
calculate_crc_header_only(frame) == crc_bytes(65535, pack_header(frame), 1)

calculate_crc(frame) == crc_bytes(65535, pack_header(frame) \o frame.data, 1)

with_crc(frame) == [frame EXCEPT !.crc = calculate_crc(frame)]

create_data_frame(channel, data, priority, sequence) ==
    with_crc(SixPackFrame(DATA, channel, priority, sequence, data, 0))

create_ack_frame(channel, sequence) ==
    with_crc(SixPackFrame(ACK, channel, 0, sequence, <<>>, 0))

create_status_request(channel) ==
    with_crc(SixPackFrame(STATUS, channel, 0, 0, <<>>, 0))

\* header + data + struct.pack('>H', crc), with the CRC recalculated
pack(frame) ==
    LET crc == calculate_crc(frame)
    IN  pack_header(frame) \o frame.data \o <<ShiftRight(crc, 8), BitAnd(crc, 255)>>

\* the fields are taken from the bytes and the checksum is not verified
unpack_unchecked(data) ==
    IF Len(data) < MinFrameSize \/ data[1] # 0 THEN <<>>
    ELSE <<[sync |-> data[1], command |-> BitAnd(data[2], 3),
            channel |-> BitAnd(ShiftRight(data[2], 4), 15),
            priority |-> BitAnd(ShiftRight(data[2], 2), 3), sequence |-> data[3],
            data |-> SubSeq(data, 4, Len(data) - 2),
            crc |-> data[Len(data) - 1] * 256 + data[Len(data)]]>>

\* Optional[SixPackFrame]: <<>> is None, <<frame>> is a frame
unpack(data) ==
    IF Len(data) < MinFrameSize THEN <<>>
    ELSE LET sync == data[1]
             cmd_byte == data[2]
             sequence == data[3]
         IN  IF sync # 0 THEN <<>>
             ELSE LET channel == BitAnd(ShiftRight(cmd_byte, 4), 15)
                      priority == BitAnd(ShiftRight(cmd_byte, 2), 3)
                      command == BitAnd(cmd_byte, 3)
                      crc == data[Len(data) - 1] * 256 + data[Len(data)]
                      payload == SubSeq(data, 4, Len(data) - 2)
                      frame == [sync |-> sync, command |-> command, channel |-> channel,
                                priority |-> priority, sequence |-> sequence,
                                data |-> payload, crc |-> crc]
                  IN  IF calculate_crc(frame) # crc THEN <<>> ELSE <<frame>>

----------------------------------------------------------------------------
(* queue.PriorityQueue over heapq: tx_queue holds (priority_value, frame) tuples *)

\* tuple "<": decided by priority_value; on a tie the frames are compared,
\* equal frames (dataclass __eq__) give False, unequal ones have no "<"
ItemCmp(a, b) ==
    IF a[1] # b[1] THEN (IF a[1] < b[1] THEN "lt" ELSE "ge")
    ELSE IF a[2] = b[2] THEN "ge"
    ELSE "TypeError"

Swap(h, i, j) == [h EXCEPT ![i] = h[j], ![j] = h[i]]

\* heapq _siftdown, positions counted from 1: move h[pos] towards the root
RECURSIVE siftdown(_, _, _)
siftdown(h, startpos, pos) ==
    IF pos <= startpos THEN [heap |-> h, err |-> FALSE]
    ELSE LET parentpos == pos \div 2
             cmp == ItemCmp(h[pos], h[parentpos])
         IN  IF cmp = "TypeError" THEN [heap |-> h, err |-> TRUE]
             ELSE IF cmp = "lt" THEN siftdown(Swap(h, pos, parentpos), startpos, parentpos)
             ELSE [heap |-> h, err |-> FALSE]

\* heapq _siftup: bubble the smaller child up to a leaf, then sift down
RECURSIVE siftup(_, _)
siftup(h, pos) ==
    IF pos > Len(h) \div 2 THEN siftdown(h, 1, pos)
    ELSE LET childpos == 2 * pos
             cmp == IF childpos + 1 <= Len(h)
                    THEN ItemCmp(h[childpos], h[childpos + 1])
                    ELSE "lt"
         IN  IF cmp = "TypeError" THEN [heap |-> h, err |-> TRUE]
             ELSE LET c == IF cmp = "lt" THEN childpos ELSE childpos + 1
                  IN  siftup(Swap(h, c, pos), c)

\* PriorityQueue.put -> heappush: the item is appended before it is sifted
heappush(h, item) == siftdown(Append(h, item), 1, Len(h) + 1)

\* PriorityQueue.get -> heappop: the last item replaces the root
heappop(h) ==
    LET lastelt == h[Len(h)]
        rest == SubSeq(h, 1, Len(h) - 1)
    IN  IF rest = <<>> THEN [heap |-> rest, err |-> FALSE, item |-> lastelt]
        ELSE LET r == siftup([rest EXCEPT ![1] = lastelt], 1)
             IN  [heap |-> r.heap, err |-> r.err, item |-> rest[1]]

priority_value(priority, seq) == (3 - priority) * 1000 + seq

----------------------------------------------------------------------------
(* pending_acks: a dict keyed "channel:sequence", kept in insertion order *)

PendingKey(channel, sequence) == <<channel, sequence>>

PendingIndex(p, key) ==
    IF \E i \in 1..Len(p) : p[i].key = key
    THEN CHOOSE i \in 1..Len(p) : p[i].key = key
    ELSE 0

PendingHas(p, key) == PendingIndex(p, key) # 0

PendingGet(p, key) == p[PendingIndex(p, key)]

PendingEntry(key, frame, timestamp, retries) ==
    [key |-> key, frame |-> frame, timestamp |-> timestamp, retries |-> retries]

\* pending_acks[key] = (frame, timestamp, retries)
PendingSet(p, key, frame, timestamp, retries) ==
    IF PendingHas(p, key)
    THEN [p EXCEPT ![PendingIndex(p, key)] = PendingEntry(key, frame, timestamp, retries)]
    ELSE Append(p, PendingEntry(key, frame, timestamp, retries))

\* del pending_acks[key]
PendingDel(p, key) ==
    LET i == PendingIndex(p, key)
    IN  SubSeq(p, 1, i - 1) \o SubSeq(p, i + 1, Len(p))

----------------------------------------------------------------------------
(* SixPackTNC: the steps of the receive task, on the part of the state they  *)
(* change: S = [rx_sequence, pending_acks, stats, events, dispatched, buffer] *)

Event(kind, frame) == [kind |-> kind, frame |-> frame]

\* serial_port.write(frame.pack()); stats['frames_tx'] += 1
send_frame_immediate(S, frame) ==
    [S EXCEPT !.events = Append(@, Event("write", frame)),
              !.stats.frames_tx = @ + 1]

\* the expected sequence is left where it was
process_data_no_advance(S, frame) ==
    LET S1 == send_frame_immediate(S, create_ack_frame(frame.channel, frame.sequence))
        S2 == [S1 EXCEPT !.stats.frames_ack = @ + 1]
    IN  IF frame.sequence = S2.rx_sequence[frame.channel] /\ on_data_received
        THEN [S2 EXCEPT !.events = Append(@, Event("data", frame))]
        ELSE S2

\* the payload is handed over whatever the sequence number
process_data_deliver_all(S, frame) ==
    LET S1 == send_frame_immediate(S, create_ack_frame(frame.channel, frame.sequence))
        S2 == [S1 EXCEPT !.stats.frames_ack = @ + 1]
        expected_seq == S2.rx_sequence[frame.channel]
        S3 == IF frame.sequence = expected_seq
              THEN [S2 EXCEPT !.rx_sequence[frame.channel] = (expected_seq + 1) % 256]
              ELSE S2
    IN  IF on_data_received
        THEN [S3 EXCEPT !.events = Append(@, Event("data", frame))]
        ELSE S3

\* the acknowledgment is written after the payload is handed over
process_data_ack_last(S, frame) ==
    LET expected_seq == S.rx_sequence[frame.channel]
        S1 == IF frame.sequence = expected_seq
              THEN LET S3 == [S EXCEPT !.rx_sequence[frame.channel] =
                                           (expected_seq + 1) % 256]
                   IN  IF on_data_received
                       THEN [S3 EXCEPT !.events = Append(@, Event("data", frame))]
                       ELSE S3
              ELSE S
        S2 == send_frame_immediate(S1, create_ack_frame(frame.channel, frame.sequence))
    IN  [S2 EXCEPT !.stats.frames_ack = @ + 1]

\* the expected sequence is advanced without the wraparound
process_data_no_wrap(S, frame) ==
    LET S1 == send_frame_immediate(S, create_ack_frame(frame.channel, frame.sequence))
        S2 == [S1 EXCEPT !.stats.frames_ack = @ + 1]
        expected_seq == S2.rx_sequence[frame.channel]
    IN  IF frame.sequence = expected_seq
        THEN LET S3 == [S2 EXCEPT !.rx_sequence[frame.channel] = expected_seq + 1]
             IN  IF on_data_received
                 THEN [S3 EXCEPT !.events = Append(@, Event("data", frame))]
                 ELSE S3
        ELSE S2

process_data(S, frame) ==
    LET S1 == send_frame_immediate(S, create_ack_frame(frame.channel, frame.sequence))
        S2 == [S1 EXCEPT !.stats.frames_ack = @ + 1]
        expected_seq == S2.rx_sequence[frame.channel]
    IN  IF frame.sequence = expected_seq
        THEN LET S3 == [S2 EXCEPT !.rx_sequence[frame.channel] = (expected_seq + 1) % 256]
             IN  IF on_data_received
                 THEN [S3 EXCEPT !.events = Append(@, Event("data", frame))]
                 ELSE S3
        ELSE S2

\* an acknowledgment takes the oldest pending entry away, whatever its key
process_ack_oldest(S, frame) ==
    IF S.pending_acks # <<>>
    THEN [S EXCEPT !.pending_acks = Tail(@)]
    ELSE S

\* an acknowledgment is acknowledged in turn
process_ack_echo(S, frame) ==
    LET key == PendingKey(frame.channel, frame.sequence)
        S1 == send_frame_immediate(S, create_ack_frame(frame.channel, frame.sequence))
    IN  IF PendingHas(S1.pending_acks, key)
        THEN [S1 EXCEPT !.pending_acks = PendingDel(@, key)]
        ELSE S1

process_ack(S, frame) ==
    LET key == PendingKey(frame.channel, frame.sequence)
    IN  IF PendingHas(S.pending_acks, key)
        THEN [S EXCEPT !.pending_acks = PendingDel(@, key)]
        ELSE S

\* a negative acknowledgment is counted only when its key is pending
process_nack_if_pending(S, frame) ==
    LET key == PendingKey(frame.channel, frame.sequence)
    IN  IF PendingHas(S.pending_acks, key)
        THEN LET e == PendingGet(S.pending_acks, key)
                 S1 == IF e.retries < max_retries
                       THEN LET Sa == [S EXCEPT !.pending_acks =
                                          PendingSet(@, key, e.frame, now, e.retries + 1)]
                                Sb == send_frame_immediate(Sa, e.frame)
                            IN  [Sb EXCEPT !.stats.retries = @ + 1]
                       ELSE [S EXCEPT !.pending_acks = PendingDel(@, key)]
             IN  [S1 EXCEPT !.stats.frames_nack = @ + 1]
        ELSE S

\* a negative acknowledgment retransmits whatever the retry count is
process_nack_unbounded(S, frame) ==
    LET key == PendingKey(frame.channel, frame.sequence)
        S1 == IF PendingHas(S.pending_acks, key)
              THEN LET e == PendingGet(S.pending_acks, key)
                       Sa == [S EXCEPT !.pending_acks =
                                 PendingSet(@, key, e.frame, now, e.retries + 1)]
                       Sb == send_frame_immediate(Sa, e.frame)
                   IN  [Sb EXCEPT !.stats.retries = @ + 1]
              ELSE S
    IN  [S1 EXCEPT !.stats.frames_nack = @ + 1]

\* a negative acknowledgment whose key is not pending has the frame written
\* again from the transmit queue
process_nack_resend(S, frame) ==
    LET key == PendingKey(frame.channel, frame.sequence)
        queued == {i \in 1..Len(tx_queue) :
                      /\ tx_queue[i][2].command = DATA
                      /\ tx_queue[i][2].channel = frame.channel
                      /\ tx_queue[i][2].sequence = frame.sequence}
        S1 == IF PendingHas(S.pending_acks, key)
              THEN LET e == PendingGet(S.pending_acks, key)
                   IN  IF e.retries < max_retries
                       THEN LET Sa == [S EXCEPT !.pending_acks =
                                          PendingSet(@, key, e.frame, now, e.retries + 1)]
                                Sb == send_frame_immediate(Sa, e.frame)
                            IN  [Sb EXCEPT !.stats.retries = @ + 1]
                       ELSE [S EXCEPT !.pending_acks = PendingDel(@, key)]
              ELSE IF queued # {}
              THEN send_frame_immediate(S, tx_queue[CHOOSE i \in queued : TRUE][2])
              ELSE S
    IN  [S1 EXCEPT !.stats.frames_nack = @ + 1]

process_nack(S, frame) ==
    LET key == PendingKey(frame.channel, frame.sequence)
        S1 == IF PendingHas(S.pending_acks, key)
              THEN LET e == PendingGet(S.pending_acks, key)
                   IN  IF e.retries < max_retries
                       THEN LET Sa == [S EXCEPT !.pending_acks =
                                          PendingSet(@, key, e.frame, now, e.retries + 1)]
                                Sb == send_frame_immediate(Sa, e.frame)
                            IN  [Sb EXCEPT !.stats.retries = @ + 1]
                       ELSE [S EXCEPT !.pending_acks = PendingDel(@, key)]
              ELSE S
    IN  [S1 EXCEPT !.stats.frames_nack = @ + 1]

\* struct '>I' / '>H': bytes lo..hi of data as one big-endian number
RECURSIVE BigEndian(_, _, _)
BigEndian(data, lo, hi) ==
    IF lo > hi THEN 0 ELSE BigEndian(data, lo, hi - 1) * 256 + data[hi]

\* the status dict before anything is parsed; a frequency is held as the 32
\* bits of its IEEE-754 single (915.0 is 0x4464C000)
status_defaults ==
    [frequency |-> 1147453440, tx_power |-> 20, packets_tx |-> 0, packets_rx |-> 0,
     crc_errors |-> 0]

\* struct.unpack('>fBIIH', data[:15])
unpack_status(data) ==
    [frequency |-> BigEndian(data, 1, 4), tx_power |-> data[5],
     packets_tx |-> BigEndian(data, 6, 9), packets_rx |-> BigEndian(data, 10, 13),
     crc_errors |-> BigEndian(data, 14, 15)]

\* _parse_status_data
parse_status_data(data) ==
    IF Len(data) >= 16 THEN unpack_status(data) ELSE status_defaults

\* on_status_response(frame.channel, status_data)
process_status(S, frame) ==
    IF on_status_response
    THEN [S EXCEPT !.events = Append(@, [kind |-> "status", frame |-> frame,
                                         status |-> parse_status_data(frame.data)])]
    ELSE S

process_received_frame(S, frame) ==
    LET S1 == [S EXCEPT !.stats.frames_rx = @ + 1,
                        !.dispatched = Append(@, [frame |-> frame,
                                                  handler |-> on_data_received])]
    IN  IF frame.command = DATA THEN process_data(S1, frame)
        ELSE IF frame.command = ACK THEN process_ack(S1, frame)
        ELSE IF frame.command = NACK THEN process_nack(S1, frame)
        ELSE IF frame.command = STATUS THEN process_status(S1, frame)
        ELSE S1

\* the loop of _check_timeouts over pending_acks.items(), from entry i on;
\* timed_out collects the keys to delete afterwards
RECURSIVE check_timeouts_loop(_, _, _)
check_timeouts_loop(S, i, timed_out) ==
    IF i > Len(S.pending_acks)
    THEN [S |-> S, timed_out |-> timed_out]
    ELSE LET e == S.pending_acks[i]
         IN  IF now - e.timestamp > ack_timeout
             THEN IF e.retries < max_retries
                  THEN LET Sa == send_frame_immediate(S, e.frame)
                           Sb == [Sa EXCEPT !.pending_acks =
                                      PendingSet(@, e.key, e.frame, now, e.retries + 1),
                                            !.stats.retries = @ + 1]
                       IN  check_timeouts_loop(Sb, i + 1, timed_out)
                  ELSE check_timeouts_loop([S EXCEPT !.stats.timeouts = @ + 1],
                                           i + 1, Append(timed_out, e.key))
             ELSE check_timeouts_loop(S, i + 1, timed_out)

RECURSIVE PendingDelAll(_, _, _)
PendingDelAll(p, keys, i) ==
    IF i > Len(keys) THEN p ELSE PendingDelAll(PendingDel(p, keys[i]), keys, i + 1)

check_timeouts(S) ==
    LET r == check_timeouts_loop(S, 1, <<>>)
    IN  [r.S EXCEPT !.pending_acks = PendingDelAll(@, r.timed_out, 1)]

\* _check_timeouts up to the first serial_port.write, which raises: the
\* entries given up before it are counted but not yet deleted, the entry
\* being retransmitted keeps its timestamp and retry count
RECURSIVE check_timeouts_write_error(_, _)
check_timeouts_write_error(S, i) ==
    IF i > Len(S.pending_acks) THEN S
    ELSE LET e == S.pending_acks[i]
         IN  IF now - e.timestamp > ack_timeout
             THEN IF e.retries < max_retries
                  THEN S
                  ELSE check_timeouts_write_error([S EXCEPT !.stats.timeouts = @ + 1], i + 1)
             ELSE check_timeouts_write_error(S, i + 1)

\* the sweep has a frame to retransmit
SweepWrites(S) ==
    \E i \in 1..Len(S.pending_acks) :
        /\ now - S.pending_acks[i].timestamp > ack_timeout
        /\ S.pending_acks[i].retries < max_retries

----------------------------------------------------------------------------
(* The receive loop *)

\* bytearray.find(0x00, start), positions counted from 1; 0 when absent
FindSync(buf, start) ==
    IF \E i \in start..Len(buf) : buf[i] = 0
    THEN CHOOSE i \in start..Len(buf) : buf[i] = 0 /\ \A j \in start..(i - 1) : buf[j] # 0
    ELSE 0

\* _extract_frame: the frame found (or <<>>) and the buffer it leaves
extract_frame(buf) ==
    IF Len(buf) < MinFrameSize THEN [frame |-> <<>>, buffer |-> buf]
    ELSE LET next_sync == FindSync(buf, 2)
         IN  IF next_sync = 0
             THEN [frame |-> <<>>,
                   buffer |-> IF Len(buf) > MaxBufferedFrame THEN <<>> ELSE buf]
             ELSE LET frame == unpack(SubSeq(buf, 1, next_sync - 1))
                  IN  IF frame # <<>>
                      THEN [frame |-> frame, buffer |-> SubSeq(buf, next_sync, Len(buf))]
                      ELSE [frame |-> <<>>, buffer |-> SubSeq(buf, 2, Len(buf))]

\* "while len(buffer) >= 5" of _rx_thread
RECURSIVE process_frames(_)
process_frames(S) ==
    IF Len(S.buffer) < MinFrameSize THEN S
    ELSE LET sync_pos == FindSync(S.buffer, 1)
         IN  IF sync_pos = 0 THEN [S EXCEPT !.buffer = <<>>]
             ELSE LET r == extract_frame(SubSeq(S.buffer, sync_pos, Len(S.buffer)))
                  IN  IF r.frame # <<>>
                      THEN process_frames(
                               process_received_frame([S EXCEPT !.buffer = r.buffer],
                                                      r.frame[1]))
                      ELSE [S EXCEPT !.buffer = r.buffer]

\* one pass of "while self.running" with the bytes read from the serial port
rx_thread(S, data) ==
    LET S1 == IF data # <<>>
              THEN process_frames([S EXCEPT !.buffer = @ \o data])
              ELSE S
    IN  check_timeouts(S1)

----------------------------------------------------------------------------
(* Bounds and inputs *)

NumChannels == 2
MaxSeq == 2
MaxQueue == 2
MaxRx == 2
MaxDispatch == 3
MaxControl == 2
MaxTime == 24
MaxBuffer == 6
TickStep == 3
MaxQueueOps == 7
MaxFairQueue == 1

Channels == 0..(NumChannels - 1)
Payloads == {<<72>>, <<105>>}
Sequences == 0..MaxSeq

create_nack_frame(channel, sequence) ==
    with_crc(SixPackFrame(NACK, channel, 0, sequence, <<>>, 0))

\* frames a peer can send: to the dispatcher on its own ...
DispatchFrames ==
    {create_data_frame(c, d, NORMAL, s) : c \in Channels, d \in Payloads, s \in Sequences}
    \cup {create_ack_frame(c, 0) : c \in Channels}
    \cup {create_nack_frame(c, 0) : c \in Channels}
    \cup {create_status_request(0)}

\* ... and in answer to submitted frames
ControlFrames ==
    {create_ack_frame(c, 0) : c \in Channels}
    \cup {create_nack_frame(c, 0) : c \in Channels}

\* what one read of the serial port can return
RxChunks == {pack(create_ack_frame(1, 1)), <<0>>}

----------------------------------------------------------------------------
(* State *)

EngineState ==
    [rx_sequence |-> rx_sequence, pending_acks |-> pending_acks, stats |-> stats,
     events |-> events, dispatched |-> dispatched, buffer |-> buffer]

Commit(S) ==
    /\ rx_sequence' = S.rx_sequence
    /\ pending_acks' = S.pending_acks
    /\ stats' = S.stats
    /\ events' = S.events
    /\ dispatched' = S.dispatched
    /\ buffer' = S.buffer

IdleCodec == [pc |-> "idle", frame |-> <<>>, bytes |-> <<>>, flipped |-> 0, out |-> <<>>]

IdlePort == [data |-> <<>>, pos |-> 0, errors |-> <<>>]

IdleApp == [at |-> "idle"]
IdleRx == [at |-> "idle", error |-> "none"]
IdlePc == [app |-> IdleApp, rx |-> IdleRx]

InitCore ==
    /\ tx_sequence = [c \in 0..(max_channels - 1) |-> 0]
    /\ rx_sequence = [c \in 0..(max_channels - 1) |-> 0]
    /\ pending_acks = <<>>
    /\ tx_queue = <<>>
    /\ on_data_received = FALSE
    /\ on_status_response = FALSE
    /\ running = FALSE
    /\ buffer = <<>>
    /\ stats = [frames_tx |-> 0, frames_rx |-> 0, frames_ack |-> 0, frames_nack |-> 0,
                crc_errors |-> 0, timeouts |-> 0, retries |-> 0]
    /\ now = 0
    /\ events = <<>>
    /\ dispatched = <<>>
    /\ drained = <<>>
    /\ result = "none"
    /\ pc = IdlePc

InitEngine == InitCore /\ serial_port = IdlePort

Init == InitEngine /\ codec = IdleCodec

----------------------------------------------------------------------------
(* Operations *)

\* SixPackTNC.start
Start ==
    /\ ~running
    /\ running' = TRUE
    /\ buffer' = <<>>
    /\ UNCHANGED <<tx_sequence, rx_sequence, pending_acks, tx_queue, on_data_received,
                   on_status_response, stats, now, events, dispatched, drained, result,
                   codec, serial_port, pc>>

\* stopping puts the counters back to zero
StopResetStats ==
    /\ running
    /\ running' = FALSE
    /\ stats' = [k \in DOMAIN stats |-> 0]
    /\ UNCHANGED <<tx_sequence, rx_sequence, pending_acks, tx_queue, on_data_received,
                   on_status_response, buffer, now, events, dispatched, drained,
                   result, codec, serial_port, pc>>

\* SixPackTNC.stop
Stop ==
    /\ running
    /\ running' = FALSE
    /\ UNCHANGED <<tx_sequence, rx_sequence, pending_acks, tx_queue, on_data_received,
                   on_status_response, buffer, stats, now, events, dispatched, drained,
                   result, codec, serial_port, pc>>

\* tnc.on_data_received = on_data
SetDataHandler ==
    /\ ~on_data_received
    /\ on_data_received' = TRUE
    /\ UNCHANGED <<tx_sequence, rx_sequence, pending_acks, tx_queue, on_status_response,
                   running, buffer, stats, now, events, dispatched, drained, result,
                   codec, serial_port, pc>>

\* tnc.on_status_response = on_status
SetStatusHandler ==
    /\ ~on_status_response
    /\ on_status_response' = TRUE
    /\ UNCHANGED <<tx_sequence, rx_sequence, pending_acks, tx_queue, on_data_received,
                   running, buffer, stats, now, events, dispatched, drained, result,
                   codec, serial_port, pc>>

\* the sequence counter grows without wrapping at 256
send_data_no_wrap(channel, data, priority) ==
    IF channel >= max_channels
    THEN /\ result' = "False"
         /\ UNCHANGED <<tx_sequence, pending_acks, tx_queue>>
    ELSE LET seq == tx_sequence[channel]
             frame == create_data_frame(channel, data, priority, seq)
             put == heappush(tx_queue, <<priority_value(priority, seq), frame>>)
         IN  /\ tx_queue' = put.heap
             /\ IF put.err
                THEN /\ result' = "TypeError"
                     /\ UNCHANGED <<tx_sequence, pending_acks>>
                ELSE /\ tx_sequence' = [tx_sequence EXCEPT ![channel] = seq + 1]
                     /\ pending_acks' = PendingSet(pending_acks,
                                                   PendingKey(channel, seq), frame, now, 0)
                     /\ result' = "True"

\* SixPackTNC.send_data(channel, data, priority)
send_data(channel, data, priority) ==
    IF channel >= max_channels
    THEN /\ result' = "False"
         /\ UNCHANGED <<tx_sequence, pending_acks, tx_queue>>
    ELSE LET seq == tx_sequence[channel]
             frame == create_data_frame(channel, data, priority, seq)
             put == heappush(tx_queue, <<priority_value(priority, seq), frame>>)
         IN  /\ tx_queue' = put.heap
             /\ IF put.err
                THEN /\ result' = "TypeError"
                     /\ UNCHANGED <<tx_sequence, pending_acks>>
                ELSE /\ tx_sequence' = [tx_sequence EXCEPT ![channel] = (seq + 1) % 256]
                     /\ pending_acks' = PendingSet(pending_acks,
                                                   PendingKey(channel, seq), frame, now, 0)
                     /\ result' = "True"

SendData(chans, datas, prios, cap) ==
    /\ Len(tx_queue) + Len(drained) < cap
    /\ \E channel \in chans, data \in datas, priority \in prios :
           send_data(channel, data, priority)
    /\ UNCHANGED <<rx_sequence, on_data_received, on_status_response, running, buffer,
                   stats, now, events, dispatched, drained, codec, serial_port, pc>>

\* SixPackTNC.send_status_request(channel)
SendStatusRequest(chans, cap) ==
    /\ Len(tx_queue) + Len(drained) < cap
    /\ \E channel \in chans :
           LET put == heappush(tx_queue, <<0, create_status_request(channel)>>)
           IN  /\ tx_queue' = put.heap
               /\ result' = IF put.err THEN "TypeError" ELSE "True"
    /\ UNCHANGED <<tx_sequence, rx_sequence, pending_acks, on_data_received,
                   on_status_response, running, buffer, stats, now, events, dispatched,
                   drained, codec, serial_port, pc>>

\* one iteration of SixPackTNC._rx_thread in which the serial port returns data
RxThreadRead(data) ==
    /\ running
    /\ data # <<>> => /\ Len(buffer) + Len(data) <= MaxBuffer
                      /\ Len(dispatched) < MaxRx
    /\ Commit(rx_thread(EngineState, data))
    /\ UNCHANGED <<tx_sequence, tx_queue, on_data_received, on_status_response, running,
                   now, drained, result, codec, serial_port, pc>>

RxThread == \E data \in RxChunks \cup {<<>>} : RxThreadRead(data)

\* an iteration with nothing waiting on the serial port
RxThreadIdle == RxThreadRead(<<>>)

\* SixPackTNC._process_received_frame(frame)
ProcessReceivedFrame(frames, cap) ==
    /\ Len(dispatched) < cap
    /\ \E frame \in frames : Commit(process_received_frame(EngineState, frame))
    /\ UNCHANGED <<tx_sequence, tx_queue, on_data_received, on_status_response, running,
                   now, drained, result, codec, serial_port, pc>>

\* SixPackTNC._check_timeouts()
CheckTimeouts ==
    /\ Commit(check_timeouts(EngineState))
    /\ UNCHANGED <<tx_sequence, tx_queue, on_data_received, on_status_response, running,
                   now, drained, result, codec, serial_port, pc>>

\* time.time() moves on.  The engine reads the clock only in differences
\* current_time - timestamp compared with ack_timeout, so once the clock
\* would pass MaxTime the epoch is moved instead: every stored timestamp
\* goes back by the overshoot, and one that would fall below zero stays at
\* zero, where its age MaxTime is still beyond ack_timeout.
Tick ==
    LET over == IF now + TickStep > MaxTime THEN now + TickStep - MaxTime ELSE 0
        Back(t) == IF t > over THEN t - over ELSE 0
    IN  /\ MaxTime > ack_timeout
        /\ now' = now + TickStep - over
        /\ pending_acks' = [i \in 1..Len(pending_acks) |->
                               [pending_acks[i] EXCEPT !.timestamp = Back(@)]]
        /\ UNCHANGED <<tx_sequence, rx_sequence, tx_queue, on_data_received,
                       on_status_response, running, buffer, stats, events, dispatched,
                       drained, result, codec, serial_port, pc>>

\* tx_queue.get(): the transport write path taking the next frame
QueueGet ==
    /\ tx_queue # <<>>
    /\ LET get == heappop(tx_queue)
       IN  /\ tx_queue' = get.heap
           /\ drained' = Append(drained, [ok |-> ~get.err, frame |-> get.item[2]])
    /\ UNCHANGED <<tx_sequence, rx_sequence, pending_acks, on_data_received,
                   on_status_response, running, buffer, stats, now, events, dispatched,
                   result, codec, serial_port, pc>>

Next ==
    \/ Start
    \/ Stop
    \/ SendData(Channels, {<<72>>}, {NORMAL, URGENT}, MaxQueue)
    \/ SendStatusRequest({0}, MaxQueue)
    \/ RxThread
    \/ Tick

Spec == Init /\ [][Next]_vars

\* the dispatcher on its own: _process_received_frame called frame by frame
NextDispatch ==
    \/ SetDataHandler
    \/ SetStatusHandler
    \/ ProcessReceivedFrame(DispatchFrames, MaxDispatch)

SpecDispatch == Init /\ [][NextDispatch]_vars

\* submit, acknowledgment, negative acknowledgment and sweep
NextReliability ==
    \/ SendData(Channels, {<<72>>}, {NORMAL}, MaxQueue)
    \/ ProcessReceivedFrame(ControlFrames, MaxControl)
    \/ CheckTimeouts
    \/ Tick

SpecReliability == Init /\ [][NextReliability]_vars

\* the transmit queue: a batch of frames is enqueued, then taken out
QueueSend ==
    /\ drained = <<>>
    /\ SendData(Channels, {<<>>}, {HIGH, URGENT}, MaxQueueOps)

NextQueue ==
    \/ QueueSend
    \/ QueueGet

SpecQueue == Init /\ [][NextQueue]_vars

----------------------------------------------------------------------------
(* The frame codec on its own: a frame is packed, possibly damaged in one    *)
(* bit before the checksum field, and unpacked                               *)

CodecSequences == {0, 170, 255}
CodecPayloads == {<<>>, <<0, 255>>}

InitCodec ==
    /\ InitEngine
    /\ \E command \in SixPackCommands, channel \in 0..(max_channels - 1),
          priority \in Priority, sequence \in CodecSequences, data \in CodecPayloads :
           codec = [IdleCodec EXCEPT
                       !.pc = "new",
                       !.frame = with_crc(SixPackFrame(command, channel, priority,
                                                       sequence, data, 0))]

\* byte i of data with bit b inverted
FlipByteBit(data, i, b) == [data EXCEPT ![i] = FlipBit(@, b)]

CodecPack ==
    /\ codec.pc = "new"
    /\ codec' = [codec EXCEPT !.pc = "packed", !.bytes = pack(codec.frame)]
    /\ UNCHANGED engine_vars

CodecFlip ==
    /\ codec.pc = "packed"
    /\ \E i \in 1..(Len(codec.bytes) - 2), b \in 0..7 :
           codec' = [codec EXCEPT !.pc = "damaged",
                                  !.bytes = FlipByteBit(codec.bytes, i, b),
                                  !.flipped = i]
    /\ UNCHANGED engine_vars

CodecUnpack ==
    /\ codec.pc \in {"packed", "damaged"}
    /\ codec' = [codec EXCEPT !.pc = "unpacked", !.out = unpack(codec.bytes)]
    /\ UNCHANGED engine_vars

NextCodec ==
    \/ CodecPack
    \/ CodecFlip
    \/ CodecUnpack

SpecCodec == InitCodec /\ [][NextCodec]_vars

\* one frame in flight, with the receive task and the clock kept running
NextFair ==
    \/ Start
    \/ Stop
    \/ SendData(Channels, {<<72>>}, {NORMAL}, MaxFairQueue)
    \/ RxThread
    \/ Tick

FairSpec == Init /\ [][NextFair]_vars /\ WF_vars(RxThreadIdle) /\ WF_vars(Tick)

----------------------------------------------------------------------------
(* The receive path fed from the serial port: a stream of garbage, frame A,  *)
(* garbage, frame B arrives and is read in pieces of any size                *)

Garbage == {<<255>>, <<7, 9>>}
ResyncFrames == {create_ack_frame(1, 1), create_data_frame(1, <<72>>, NORMAL, 1)}

ResyncStreams ==
    [garbage1 : Garbage, A : ResyncFrames, garbage2 : Garbage, B : ResyncFrames]

StreamBytes(s) == s.garbage1 \o pack(s.A) \o s.garbage2 \o pack(s.B)

InitResync ==
    /\ InitCore
    /\ codec = IdleCodec
    /\ \E s \in ResyncStreams : serial_port = [IdlePort EXCEPT !.data = StreamBytes(s)]

\* one iteration of _rx_thread: serial_port.read(serial_port.in_waiting)
\* returns the n bytes that have arrived and were not read yet
RxThreadPort ==
    /\ running
    /\ \E n \in 1..(Len(serial_port.data) - serial_port.pos) :
           /\ Commit(rx_thread(EngineState,
                               SubSeq(serial_port.data, serial_port.pos + 1,
                                      serial_port.pos + n)))
           /\ serial_port' = [serial_port EXCEPT !.pos = @ + n]
    /\ UNCHANGED <<tx_sequence, tx_queue, on_data_received, on_status_response, running,
                   now, drained, result, codec, pc>>

\* (an iteration with nothing waiting only sweeps, and nothing is pending)
NextResync ==
    \/ Start
    \/ SetDataHandler
    \/ RxThreadPort

SpecResync == InitResync /\ [][NextResync]_vars

----------------------------------------------------------------------------
(* The application calling send_data: channels in and out of range, payloads *)
(* short and longer than any frame the receive side keeps (256 bytes)        *)

MaxSubmit == 2

SubmitChannels == Channels \cup {max_channels}
LongPayload == [i \in 1..(MaxBufferedFrame + 1) |-> 65]
SubmitPayloads == {<<72>>, LongPayload}
SubmitPriorities == {LOW, NORMAL, HIGH}

Submit == SendData(SubmitChannels, SubmitPayloads, SubmitPriorities, MaxSubmit)

NextSubmit == Submit

SpecSubmit == Init /\ [][NextSubmit]_vars

----------------------------------------------------------------------------
(* A channel's sequence counter about to wrap: the engine after WrapStart    *)
(* calls send_data(0, b"", NORMAL) at time 0, none of them acknowledged      *)

WrapStart == 254
MaxWrapSends == 4

WrapFrame(i) == create_data_frame(0, <<>>, NORMAL, i - 1)

InitWrap ==
    /\ tx_sequence = [c \in 0..(max_channels - 1) |-> IF c = 0 THEN WrapStart ELSE 0]
    /\ rx_sequence = [c \in 0..(max_channels - 1) |-> 0]
    /\ pending_acks = [i \in 1..WrapStart |->
                          PendingEntry(PendingKey(0, i - 1), WrapFrame(i), 0, 0)]
    /\ tx_queue = [i \in 1..WrapStart |-> <<priority_value(NORMAL, i - 1), WrapFrame(i)>>]
    /\ on_data_received = FALSE
    /\ on_status_response = FALSE
    /\ running = FALSE
    /\ buffer = <<>>
    /\ stats = [frames_tx |-> 0, frames_rx |-> 0, frames_ack |-> 0, frames_nack |-> 0,
                crc_errors |-> 0, timeouts |-> 0, retries |-> 0]
    /\ now = 0
    /\ events = <<>>
    /\ dispatched = <<>>
    /\ drained = <<>>
    /\ result = "True"
    /\ pc = IdlePc
    /\ serial_port = IdlePort
    /\ codec = IdleCodec

NextWrap == SendData(Channels, {<<72>>}, {NORMAL, HIGH}, WrapStart + MaxWrapSends)

SpecWrap == InitWrap /\ [][NextWrap]_vars

----------------------------------------------------------------------------
(* The transport raising errors inside the receive task *)

MaxErrors == 2

\* serial_port.in_waiting or serial_port.read raises: "except Exception"
\* prints the error and the "while self.running" loop goes on
RxThreadReadError ==
    /\ running
    /\ Len(serial_port.errors) < MaxErrors
    /\ serial_port' = [serial_port EXCEPT !.errors = Append(@, "read")]
    /\ UNCHANGED <<tx_sequence, rx_sequence, pending_acks, tx_queue, on_data_received,
                   on_status_response, running, buffer, stats, now, events, dispatched,
                   drained, result, codec, pc>>

\* nothing is waiting, and serial_port.write raises in the sweep's first
\* retransmission: the same "except Exception", and the loop goes on
RxThreadWriteError ==
    /\ running
    /\ Len(serial_port.errors) < MaxErrors
    /\ SweepWrites(EngineState)
    /\ Commit(check_timeouts_write_error(EngineState, 1))
    /\ serial_port' = [serial_port EXCEPT !.errors = Append(@, "write")]
    /\ UNCHANGED <<tx_sequence, tx_queue, on_data_received, on_status_response, running,
                   now, drained, result, codec, pc>>

NextTransport ==
    \/ Start
    \/ SendData(Channels, {<<72>>}, {NORMAL}, MaxFairQueue)
    \/ RxThread
    \/ Tick
    \/ RxThreadReadError
    \/ RxThreadWriteError

SpecTransport == Init /\ [][NextTransport]_vars

----------------------------------------------------------------------------
(* send_data in the application's thread and _check_timeouts in the receive  *)
(* thread, statement by statement; the code takes no lock in either          *)

MaxThreadSends == 2

\* send_data lines 213-218: the range check, seq read from tx_sequence, the
\* frame built
SubmitRead ==
    /\ pc.app.at = "idle"
    /\ Len(tx_queue) < MaxThreadSends
    /\ \E channel \in Channels :
           LET seq == tx_sequence[channel]
           IN  pc' = [pc EXCEPT !.app =
                         [at |-> "read", channel |-> channel, seq |-> seq,
                          frame |-> create_data_frame(channel, <<72>>, NORMAL, seq)]]
    /\ UNCHANGED <<tx_sequence, rx_sequence, pending_acks, tx_queue, on_data_received,
                   on_status_response, running, buffer, stats, now, events, dispatched,
                   drained, result, codec, serial_port>>

\* lines 221-222: tx_queue.put, under the queue's own mutex
SubmitPut ==
    /\ pc.app.at = "read"
    /\ LET put == heappush(tx_queue, <<priority_value(pc.app.frame.priority, pc.app.seq),
                                       pc.app.frame>>)
       IN  /\ tx_queue' = put.heap
           /\ IF put.err
              THEN /\ pc' = [pc EXCEPT !.app = IdleApp]
                   /\ result' = "TypeError"
              ELSE /\ pc' = [pc EXCEPT !.app.at = "put"]
                   /\ result' = result
    /\ UNCHANGED <<tx_sequence, rx_sequence, pending_acks, on_data_received,
                   on_status_response, running, buffer, stats, now, events, dispatched,
                   drained, codec, serial_port>>

\* line 225: tx_sequence[channel] = (seq + 1) % 256
SubmitAdvance ==
    /\ pc.app.at = "put"
    /\ tx_sequence' = [tx_sequence EXCEPT ![pc.app.channel] = (pc.app.seq + 1) % 256]
    /\ pc' = [pc EXCEPT !.app.at = "advanced"]
    /\ UNCHANGED <<rx_sequence, pending_acks, tx_queue, on_data_received,
                   on_status_response, running, buffer, stats, now, events, dispatched,
                   drained, result, codec, serial_port>>

\* lines 228-230: the pending entry is stored, True is returned
SubmitPending ==
    /\ pc.app.at = "advanced"
    /\ pending_acks' = PendingSet(pending_acks, PendingKey(pc.app.channel, pc.app.seq),
                                  pc.app.frame, now, 0)
    /\ result' = "True"
    /\ pc' = [pc EXCEPT !.app = IdleApp]
    /\ UNCHANGED <<tx_sequence, rx_sequence, tx_queue, on_data_received,
                   on_status_response, running, buffer, stats, now, events, dispatched,
                   drained, codec, serial_port>>

\* _check_timeouts lines 359-362: the clock is read and the iteration over
\* pending_acks.items() begins; the iterator remembers the dict's size
SweepBegin ==
    /\ running
    /\ pc.rx.at = "idle"
    /\ pc' = [pc EXCEPT !.rx = [at |-> "loop", error |-> "none", current_time |-> now,
                                 i |-> 1, size |-> Len(pending_acks),
                                 timed_out |-> <<>>]]
    /\ UNCHANGED <<tx_sequence, rx_sequence, pending_acks, tx_queue, on_data_received,
                   on_status_response, running, buffer, stats, now, events, dispatched,
                   drained, result, codec, serial_port>>

\* lines 362-372: the iterator's next entry.  A dict that changed size since
\* the iteration began makes it raise RuntimeError, which "except Exception"
\* in _rx_thread catches: the rest of the sweep is skipped.
SweepStep ==
    /\ pc.rx.at = "loop"
    /\ IF Len(pending_acks) # pc.rx.size
       THEN /\ pc' = [pc EXCEPT !.rx = [IdleRx EXCEPT !.error = "RuntimeError"]]
            /\ UNCHANGED <<pending_acks, stats, events>>
       ELSE IF pc.rx.i > Len(pending_acks)
       THEN /\ pc' = [pc EXCEPT !.rx.at = "delete"]
            /\ UNCHANGED <<pending_acks, stats, events>>
       ELSE LET e == pending_acks[pc.rx.i]
            IN  IF pc.rx.current_time - e.timestamp > ack_timeout
                THEN IF e.retries < max_retries
                     THEN LET Sa == send_frame_immediate(EngineState, e.frame)
                          IN  /\ events' = Sa.events
                              /\ stats' = [Sa.stats EXCEPT !.retries = @ + 1]
                              /\ pending_acks' = PendingSet(pending_acks, e.key, e.frame,
                                                            pc.rx.current_time,
                                                            e.retries + 1)
                              /\ pc' = [pc EXCEPT !.rx.i = @ + 1]
                     ELSE /\ stats' = [stats EXCEPT !.timeouts = @ + 1]
                          /\ pc' = [pc EXCEPT !.rx.i = @ + 1,
                                              !.rx.timed_out = Append(@, e.key)]
                          /\ UNCHANGED <<pending_acks, events>>
                ELSE /\ pc' = [pc EXCEPT !.rx.i = @ + 1]
                     /\ UNCHANGED <<pending_acks, stats, events>>
    /\ UNCHANGED <<tx_sequence, rx_sequence, tx_queue, on_data_received,
                   on_status_response, running, buffer, now, dispatched, drained, result,
                   codec, serial_port>>

\* lines 375-377: the entries given up are deleted
SweepDelete ==
    /\ pc.rx.at = "delete"
    /\ pending_acks' = PendingDelAll(pending_acks, pc.rx.timed_out, 1)
    /\ pc' = [pc EXCEPT !.rx = IdleRx]
    /\ UNCHANGED <<tx_sequence, rx_sequence, tx_queue, on_data_received,
                   on_status_response, running, buffer, stats, now, events, dispatched,
                   drained, result, codec, serial_port>>

NextThreads ==
    \/ Start
    \/ SubmitRead
    \/ SubmitPut
    \/ SubmitAdvance
    \/ SubmitPending
    \/ SweepBegin
    \/ SweepStep
    \/ SweepDelete
    \/ Tick

SpecThreads == Init /\ [][NextThreads]_vars

----------------------------------------------------------------------------
(* Every operation that touches the statistics: start, stop, submit, the     *)
(* dispatch of each kind of frame, and the sweep                             *)

StatsFrames ==
    {create_data_frame(0, <<72>>, NORMAL, 0), create_data_frame(0, <<72>>, NORMAL, 1),
     create_ack_frame(0, 0), create_nack_frame(0, 0), create_status_request(0)}

NextStats ==
    \/ Start
    \/ Stop
    \/ SendData({0}, {<<72>>}, {NORMAL}, MaxFairQueue)
    \/ ProcessReceivedFrame(StatsFrames, MaxRx)
    \/ CheckTimeouts
    \/ Tick

SpecStats == Init /\ [][NextStats]_vars

----------------------------------------------------------------------------
(* A frame of any command of the enumeration is packed by the peer, unpacked *)
(* by the receive loop and handed to the dispatcher                          *)

AliasFrames ==
    {with_crc(SixPackFrame(command, channel, LOW, sequence, data, 0)) :
        command \in SixPackCommands, channel \in Channels, sequence \in {0, 1},
        data \in {<<>>, <<72>>}}

InitAlias ==
    /\ InitEngine
    /\ \E frame \in AliasFrames : codec = [IdleCodec EXCEPT !.pc = "new", !.frame = frame]

\* _rx_thread: the frame that unpack returned goes to _process_received_frame
CodecDispatch ==
    /\ codec.pc = "unpacked"
    /\ codec.out # <<>>
    /\ codec' = [codec EXCEPT !.pc = "dispatched"]
    /\ Commit(process_received_frame(EngineState, codec.out[1]))
    /\ UNCHANGED <<tx_sequence, tx_queue, on_data_received, on_status_response, running,
                   now, drained, result, serial_port, pc>>

NextAlias ==
    \/ SetDataHandler
    \/ SetStatusHandler
    \/ SendData(Channels, {<<72>>}, {NORMAL}, MaxFairQueue)
    \/ CodecPack
    \/ CodecUnpack
    \/ CodecDispatch

SpecAlias == InitAlias /\ [][NextAlias]_vars

----------------------------------------------------------------------------
(* STATUS frames carrying a report of 0, 14, 15 and 16 bytes                 *)

MaxStatus == 2

\* struct.pack('>fBIIH', 433.0, 17, 258, 3, 5)
StatusReport == <<67, 216, 128, 0, 17, 0, 0, 1, 2, 0, 0, 0, 3, 0, 5>>

StatusPayloads ==
    {<<>>, SubSeq(StatusReport, 1, 14), StatusReport, StatusReport \o <<0>>}

StatusFrames ==
    {with_crc(SixPackFrame(STATUS, channel, 0, 0, data, 0)) :
        channel \in Channels, data \in StatusPayloads}

NextStatus ==
    \/ SetStatusHandler
    \/ ProcessReceivedFrame(StatusFrames, MaxStatus)

SpecStatus == Init /\ [][NextStatus]_vars

----------------------------------------------------------------------------
(* The receive path fed one valid frame followed by a sync byte: frames with *)
(* and without a 0x00 byte after their leading sync byte, alone or behind a  *)
(* sync byte and a stray byte                                                *)

\* 0x00 in the packed byte, in the sequence byte, in the payload, in the
\* checksum (ACK(1, 31) packs to 0,17,31,31,0)
ZeroFrames ==
    {create_data_frame(0, <<72>>, LOW, 1), create_ack_frame(1, 0),
     create_data_frame(1, <<0>>, NORMAL, 1), create_ack_frame(1, 31)}

\* no 0x00 but the leading one: 0,17,1,236,255 and 0,20,1,72,225,158
CleanFrames == {create_ack_frame(1, 1), create_data_frame(1, <<72>>, NORMAL, 1)}

FeedStreams == [lead : {<<>>, <<0, 255>>}, frame : ZeroFrames \cup CleanFrames]

FeedBytes(s) == s.lead \o pack(s.frame) \o <<0>>

InitFeed ==
    /\ InitCore
    /\ codec = IdleCodec
    /\ \E s \in FeedStreams : serial_port = [IdlePort EXCEPT !.data = FeedBytes(s)]

NextFeed ==
    \/ Start
    \/ SetDataHandler
    \/ RxThreadPort

SpecFeed == InitFeed /\ [][NextFeed]_vars

----------------------------------------------------------------------------
(* The receive path fed bytes that never hold a valid frame, ReadSize bytes  *)
(* to a read                                                                 *)

ReadSize == 100
MaxReads == 4

\* sync bytes only; sync bytes and 0xFF in turn; one sync byte and then
\* 0xFF; 0xFF only
ArrivingChunks ==
    {[i \in 1..ReadSize |-> 0],
     [i \in 1..ReadSize |-> IF i % 2 = 1 THEN 0 ELSE 255],
     [i \in 1..ReadSize |-> IF i = 1 THEN 0 ELSE 255],
     [i \in 1..ReadSize |-> 255]}

\* one iteration of _rx_thread: a chunk has arrived on the serial port and
\* serial_port.read(serial_port.in_waiting) returns it
RxThreadArrive ==
    /\ running
    /\ Len(serial_port.data) < MaxReads * ReadSize
    /\ \E data \in ArrivingChunks :
           /\ Commit(rx_thread(EngineState, data))
           /\ serial_port' = [serial_port EXCEPT !.data = @ \o data,
                                                 !.pos = @ + Len(data)]
    /\ UNCHANGED <<tx_sequence, tx_queue, on_data_received, on_status_response, running,
                   now, drained, result, codec, pc>>

NextBuffer ==
    \/ Start
    \/ RxThreadArrive

SpecBuffer == Init /\ [][NextBuffer]_vars

----------------------------------------------------------------------------
(* unpack applied to byte strings of any kind: up to MaxBody bytes followed  *)
(* by nothing, by their checksum, by their checksum with its two bytes       *)
(* swapped, or by their checksum with one bit inverted                       *)

MaxBody == 4

DecodeBytes == {0, 1, 17, 255}

DecodeBodies == UNION {[1..n -> DecodeBytes] : n \in 0..MaxBody}

DecodeTails(body) ==
    LET crc == crc_bytes(65535, body, 1)
    IN  {<<>>, <<ShiftRight(crc, 8), crc % 256>>, <<crc % 256, ShiftRight(crc, 8)>>,
         <<ShiftRight(crc, 8), FlipBit(crc % 256, 0)>>}

InitDecode ==
    /\ InitEngine
    /\ \E body \in DecodeBodies :
           \E tail \in DecodeTails(body) :
               codec = [IdleCodec EXCEPT !.pc = "packed", !.bytes = body \o tail]

NextDecode ==
    \/ CodecUnpack
    \/ CodecDispatch

SpecDecode == InitDecode /\ [][NextDecode]_vars

----------------------------------------------------------------------------
(* start(), the receive thread followed through its loop statement by        *)
(* statement, and stop(): running is set to False and the thread is joined   *)
(* for at most 2 seconds, which changes nothing in the engine.  The engine   *)
(* is started once.                                                          *)

\* lines 244-265 of one pass of the loop: the read and the scan of the buffer
rx_thread_read(S, data) ==
    IF data # <<>>
    THEN process_frames([S EXCEPT !.buffer = @ \o data])
    ELSE S

\* start(): the flag is set and the thread created, at its "while" test
StartThread ==
    /\ ~running
    /\ pc.rx.at = "idle"
    /\ running' = TRUE
    /\ buffer' = <<>>
    /\ pc' = [pc EXCEPT !.rx.at = "test"]
    /\ UNCHANGED <<tx_sequence, rx_sequence, pending_acks, tx_queue, on_data_received,
                   on_status_response, stats, now, events, dispatched, drained, result,
                   codec, serial_port>>

\* the loop goes round whatever the flag says
LoopTestForever ==
    /\ pc.rx.at = "test"
    /\ pc' = [pc EXCEPT !.rx.at = "read"]
    /\ UNCHANGED <<tx_sequence, rx_sequence, pending_acks, tx_queue, on_data_received,
                   on_status_response, running, buffer, stats, now, events, dispatched,
                   drained, result, codec, serial_port>>

\* line 242, "while self.running": into the body, or out of the loop, where
\* the thread ends
LoopTest ==
    /\ pc.rx.at = "test"
    /\ pc' = [pc EXCEPT !.rx.at = IF running THEN "read" ELSE "exited"]
    /\ UNCHANGED <<tx_sequence, rx_sequence, pending_acks, tx_queue, on_data_received,
                   on_status_response, running, buffer, stats, now, events, dispatched,
                   drained, result, codec, serial_port>>

\* lines 244-265: what is waiting on the serial port is read and scanned
LoopRead(data) ==
    /\ pc.rx.at = "read"
    /\ data # <<>> => /\ Len(buffer) + Len(data) <= MaxBuffer
                      /\ Len(dispatched) < MaxRx
    /\ Commit(rx_thread_read(EngineState, data))
    /\ pc' = [pc EXCEPT !.rx.at = "sweep"]
    /\ UNCHANGED <<tx_sequence, tx_queue, on_data_received, on_status_response, running,
                   now, drained, result, codec, serial_port>>

LoopReadAny == \E data \in RxChunks \cup {<<>>} : LoopRead(data)

\* nothing is waiting
LoopReadIdle == LoopRead(<<>>)

\* line 268: self._check_timeouts()
LoopSweep ==
    /\ pc.rx.at = "sweep"
    /\ Commit(check_timeouts(EngineState))
    /\ pc' = [pc EXCEPT !.rx.at = "sleep"]
    /\ UNCHANGED <<tx_sequence, tx_queue, on_data_received, on_status_response, running,
                   now, drained, result, codec, serial_port>>

\* line 270: time.sleep(0.01), then back to the test
LoopSleep ==
    /\ pc.rx.at = "sleep"
    /\ pc' = [pc EXCEPT !.rx.at = "test"]
    /\ UNCHANGED <<tx_sequence, rx_sequence, pending_acks, tx_queue, on_data_received,
                   on_status_response, running, buffer, stats, now, events, dispatched,
                   drained, result, codec, serial_port>>

NextStop ==
    \/ StartThread
    \/ Stop
    \/ SendData({0}, {<<72>>}, {NORMAL}, MaxFairQueue)
    \/ LoopTest
    \/ LoopReadAny
    \/ LoopSweep
    \/ LoopSleep
    \/ Tick

\* the thread is scheduled again and again, and the clock moves on
SpecStop ==
    /\ Init
    /\ [][NextStop]_vars
    /\ WF_vars(LoopTest)
    /\ WF_vars(LoopReadIdle)
    /\ WF_vars(LoopSweep)
    /\ WF_vars(LoopSleep)
    /\ WF_vars(Tick)

----------------------------------------------------------------------------
(* send_data called once from each of two application threads, statement by *)
(* statement; the code takes no lock around the call                        *)

Callers == {"app", "app2"}

CallerPayload(t) == IF t = "app" THEN <<72>> ELSE <<105>>

InitCallers ==
    /\ tx_sequence = [c \in 0..(max_channels - 1) |-> 0]
    /\ rx_sequence = [c \in 0..(max_channels - 1) |-> 0]
    /\ pending_acks = <<>>
    /\ tx_queue = <<>>
    /\ on_data_received = FALSE
    /\ on_status_response = FALSE
    /\ running = FALSE
    /\ buffer = <<>>
    /\ stats = [frames_tx |-> 0, frames_rx |-> 0, frames_ack |-> 0, frames_nack |-> 0,
                crc_errors |-> 0, timeouts |-> 0, retries |-> 0]
    /\ now = 0
    /\ events = <<>>
    /\ dispatched = <<>>
    /\ drained = <<>>
    /\ result = "none"
    /\ pc = [app |-> IdleApp, app2 |-> IdleApp, rx |-> IdleRx]
    /\ serial_port = IdlePort
    /\ codec = IdleCodec

\* send_data lines 213-218 in thread t: the range check, seq read from
\* tx_sequence, the frame built
CallerRead(t) ==
    /\ pc[t].at = "idle"
    /\ \E channel \in Channels, priority \in {NORMAL, HIGH} :
           LET seq == tx_sequence[channel]
           IN  pc' = [pc EXCEPT ![t] =
                         [at |-> "read", channel |-> channel, seq |-> seq,
                          frame |-> create_data_frame(channel, CallerPayload(t),
                                                      priority, seq)]]
    /\ UNCHANGED <<tx_sequence, rx_sequence, pending_acks, tx_queue, on_data_received,
                   on_status_response, running, buffer, stats, now, events, dispatched,
                   drained, result, codec, serial_port>>

\* lines 221-222: tx_queue.put, under the queue's own mutex; a TypeError
\* leaves send_data
CallerPut(t) ==
    /\ pc[t].at = "read"
    /\ LET put == heappush(tx_queue, <<priority_value(pc[t].frame.priority, pc[t].seq),
                                       pc[t].frame>>)
       IN  /\ tx_queue' = put.heap
           /\ IF put.err
              THEN /\ pc' = [pc EXCEPT ![t].at = "raised"]
                   /\ result' = "TypeError"
              ELSE /\ pc' = [pc EXCEPT ![t].at = "put"]
                   /\ result' = result
    /\ UNCHANGED <<tx_sequence, rx_sequence, pending_acks, on_data_received,
                   on_status_response, running, buffer, stats, now, events, dispatched,
                   drained, codec, serial_port>>

\* line 225: tx_sequence[channel] = (seq + 1) % 256
CallerAdvance(t) ==
    /\ pc[t].at = "put"
    /\ tx_sequence' = [tx_sequence EXCEPT ![pc[t].channel] = (pc[t].seq + 1) % 256]
    /\ pc' = [pc EXCEPT ![t].at = "advanced"]
    /\ UNCHANGED <<rx_sequence, pending_acks, tx_queue, on_data_received,
                   on_status_response, running, buffer, stats, now, events, dispatched,
                   drained, result, codec, serial_port>>

\* lines 228-230: the pending entry is stored, True is returned
CallerPending(t) ==
    /\ pc[t].at = "advanced"
    /\ pending_acks' = PendingSet(pending_acks, PendingKey(pc[t].channel, pc[t].seq),
                                  pc[t].frame, now, 0)
    /\ result' = "True"
    /\ pc' = [pc EXCEPT ![t].at = "returned"]
    /\ UNCHANGED <<tx_sequence, rx_sequence, tx_queue, on_data_received,
                   on_status_response, running, buffer, stats, now, events, dispatched,
                   drained, codec, serial_port>>

NextCallers ==
    \E t \in Callers :
        \/ CallerRead(t)
        \/ CallerPut(t)
        \/ CallerAdvance(t)
        \/ CallerPending(t)

SpecCallers == InitCallers /\ [][NextCallers]_vars

----------------------------------------------------------------------------
(* Inbound DATA frames around the wraparound of rx_sequence: the engine has  *)
(* a data handler and has been handed WrapStart frames of channel 0 in order *)

DeliveredFrame(i) == create_data_frame(0, <<72>>, NORMAL, i - 1)

\* what the dispatch of DeliveredFrame(1..WrapStart) leaves behind: for each
\* frame its ACK written, then the handler called
InitDeliver ==
    /\ tx_sequence = [c \in 0..(max_channels - 1) |-> 0]
    /\ rx_sequence = [c \in 0..(max_channels - 1) |-> IF c = 0 THEN WrapStart ELSE 0]
    /\ pending_acks = <<>>
    /\ tx_queue = <<>>
    /\ on_data_received = TRUE
    /\ on_status_response = FALSE
    /\ running = FALSE
    /\ buffer = <<>>
    /\ stats = [frames_tx |-> WrapStart, frames_rx |-> WrapStart, frames_ack |-> WrapStart,
                frames_nack |-> 0, crc_errors |-> 0, timeouts |-> 0, retries |-> 0]
    /\ now = 0
    /\ events = [j \in 1..(2 * WrapStart) |->
                    IF j % 2 = 1
                    THEN Event("write", create_ack_frame(0, (j - 1) \div 2))
                    ELSE Event("data", DeliveredFrame(j \div 2))]
    /\ dispatched = [i \in 1..WrapStart |-> [frame |-> DeliveredFrame(i), handler |-> TRUE]]
    /\ drained = <<>>
    /\ result = "none"
    /\ pc = IdlePc
    /\ serial_port = IdlePort
    /\ codec = IdleCodec

DeliverFrames ==
    {create_data_frame(c, <<72>>, NORMAL, s) : c \in {0, 1}, s \in {0, 1, 254, 255}}

NextDeliver == ProcessReceivedFrame(DeliverFrames, WrapStart + MaxWrapSends)

SpecDeliver == InitDeliver /\ [][NextDeliver]_vars

----------------------------------------------------------------------------
(* Two engines on one lossy link.  The second engine, its state and the      *)
(* frames in flight in each direction are held in serial_port (peer,         *)
(* to_peer, from_peer); both applications have registered a data handler    *)

MaxLink == 2

\* the second engine after construction
InitPeer ==
    [rx_sequence |-> [c \in 0..(max_channels - 1) |-> 0],
     pending_acks |-> <<>>,
     stats |-> [frames_tx |-> 0, frames_rx |-> 0, frames_ack |-> 0, frames_nack |-> 0,
                crc_errors |-> 0, timeouts |-> 0, retries |-> 0],
     events |-> <<>>, dispatched |-> <<>>, buffer |-> <<>>]

InitLink ==
    /\ tx_sequence = [c \in 0..(max_channels - 1) |-> 0]
    /\ rx_sequence = [c \in 0..(max_channels - 1) |-> 0]
    /\ pending_acks = <<>>
    /\ tx_queue = <<>>
    /\ on_data_received = TRUE
    /\ on_status_response = FALSE
    /\ running = FALSE
    /\ buffer = <<>>
    /\ stats = [frames_tx |-> 0, frames_rx |-> 0, frames_ack |-> 0, frames_nack |-> 0,
                crc_errors |-> 0, timeouts |-> 0, retries |-> 0]
    /\ now = 0
    /\ events = <<>>
    /\ dispatched = <<>>
    /\ drained = <<>>
    /\ result = "none"
    /\ pc = IdlePc
    /\ serial_port = [data |-> <<>>, pos |-> 0, errors |-> <<>>,
                      to_peer |-> <<>>, from_peer |-> <<>>, peer |-> InitPeer]
    /\ codec = IdleCodec

\* the frames that the events after `before` wrote to the transport
Written(before, after) ==
    LET new == SubSeq(after, Len(before) + 1, Len(after))
        w == SelectSeq(new, LAMBDA e : e.kind = "write")
    IN  [i \in 1..Len(w) |-> w[i].frame]

\* _check_timeouts of the first engine with an entry past its timeout; what
\* it writes goes onto the link
LinkSweep ==
    LET S == check_timeouts(EngineState)
    IN  /\ \E i \in 1..Len(pending_acks) : now - pending_acks[i].timestamp > ack_timeout
        /\ Len(serial_port.to_peer) < MaxLink
        /\ Commit(S)
        /\ serial_port' = [serial_port EXCEPT !.to_peer = @ \o Written(events, S.events)]
        /\ UNCHANGED <<tx_sequence, tx_queue, on_data_received, on_status_response,
                       running, now, drained, result, codec, pc>>

\* the link loses the next frame of one direction
LinkLose ==
    /\ \/ /\ serial_port.to_peer # <<>>
          /\ serial_port' = [serial_port EXCEPT !.to_peer = Tail(@)]
       \/ /\ serial_port.from_peer # <<>>
          /\ serial_port' = [serial_port EXCEPT !.from_peer = Tail(@)]
    /\ UNCHANGED <<tx_sequence, rx_sequence, pending_acks, tx_queue, on_data_received,
                   on_status_response, running, buffer, stats, now, events, dispatched,
                   drained, result, codec, pc>>

\* the second engine's receive loop unpacks the next frame of the link and
\* dispatches it; what it writes goes back onto the link
PeerReceive ==
    /\ serial_port.to_peer # <<>>
    /\ LET got == unpack(pack(Head(serial_port.to_peer)))
           P == IF got = <<>> THEN serial_port.peer
                ELSE process_received_frame(serial_port.peer, got[1])
       IN  serial_port' = [serial_port EXCEPT
                              !.to_peer = Tail(@),
                              !.peer = P,
                              !.from_peer = @ \o Written(serial_port.peer.events, P.events)]
    /\ UNCHANGED <<tx_sequence, rx_sequence, pending_acks, tx_queue, on_data_received,
                   on_status_response, running, buffer, stats, now, events, dispatched,
                   drained, result, codec, pc>>

\* the first engine's receive loop does the same with the other direction
EngineReceive ==
    /\ serial_port.from_peer # <<>>
    /\ LET got == unpack(pack(Head(serial_port.from_peer)))
           S == IF got = <<>> THEN EngineState
                ELSE process_received_frame(EngineState, got[1])
       IN  /\ Commit(S)
           /\ serial_port' = [serial_port EXCEPT
                                 !.from_peer = Tail(@),
                                 !.to_peer = @ \o Written(events, S.events)]
    /\ UNCHANGED <<tx_sequence, tx_queue, on_data_received, on_status_response, running,
                   now, drained, result, codec, pc>>

NextLink ==
    \/ SendData({0}, {<<72>>}, {NORMAL}, MaxLink)
    \/ Tick
    \/ LinkSweep
    \/ LinkLose
    \/ PeerReceive
    \/ EngineReceive

SpecLink == InitLink /\ [][NextLink]_vars

----------------------------------------------------------------------------
(* The transmit queue around the wraparound of tx_sequence: WrapStart frames *)
(* of channel 0 have been submitted and have left the queue                  *)

InitDrain ==
    /\ tx_sequence = [c \in 0..(max_channels - 1) |-> IF c = 0 THEN WrapStart ELSE 0]
    /\ rx_sequence = [c \in 0..(max_channels - 1) |-> 0]
    /\ pending_acks = [i \in 1..WrapStart |->
                          PendingEntry(PendingKey(0, i - 1), WrapFrame(i), 0, 0)]
    /\ tx_queue = <<>>
    /\ on_data_received = FALSE
    /\ on_status_response = FALSE
    /\ running = FALSE
    /\ buffer = <<>>
    /\ stats = [frames_tx |-> 0, frames_rx |-> 0, frames_ack |-> 0, frames_nack |-> 0,
                crc_errors |-> 0, timeouts |-> 0, retries |-> 0]
    /\ now = 0
    /\ events = <<>>
    /\ dispatched = <<>>
    /\ drained = [i \in 1..WrapStart |-> [ok |-> TRUE, frame |-> WrapFrame(i)]]
    /\ result = "True"
    /\ pc = IdlePc
    /\ serial_port = IdlePort
    /\ codec = IdleCodec

NextDrain ==
    \/ SendData({0}, {<<72>>}, {NORMAL, HIGH}, WrapStart + MaxWrapSends)
    \/ QueueGet

SpecDrain == InitDrain /\ [][NextDrain]_vars

----------------------------------------------------------------------------
(* Inbound control frames: ACK, NACK and STATUS frames are dispatched while *)
(* a submitted frame may be pending, with or without a status handler       *)

ControlInbound ==
    {create_ack_frame(0, 0), create_nack_frame(0, 0), create_status_request(0),
     with_crc(SixPackFrame(STATUS, 0, 0, 0, StatusReport \o <<0>>, 0))}

NextControl ==
    \/ SetStatusHandler
    \/ SendData({0}, {<<72>>}, {NORMAL}, MaxFairQueue)
    \/ ProcessReceivedFrame(ControlInbound, MaxDispatch + 1)

SpecControl == Init /\ [][NextControl]_vars

----------------------------------------------------------------------------
(* Properties *)

\* the entries of a log that satisfy Test
Count(log, Test(_)) == Cardinality({i \in 1..Len(log) : Test(log[i])})

\* C9: round trip: unpacking a packed, undamaged frame gives a frame with the
\* same channel, command, priority, sequence and payload, for every command
\* of the enumeration.
RoundTrip ==
    (codec.pc = "unpacked" /\ codec.flipped = 0) =>
        /\ codec.out # <<>>
        /\ codec.out[1].channel = codec.frame.channel
        /\ codec.out[1].command = codec.frame.command
        /\ codec.out[1].priority = codec.frame.priority
        /\ codec.out[1].sequence = codec.frame.sequence
        /\ codec.out[1].data = codec.frame.data

\* C10: checksum sensitivity: a packed frame with one bit inverted in its
\* sync, packed, sequence or payload bytes unpacks to None.
ChecksumSensitivity ==
    (codec.pc = "unpacked" /\ codec.flipped # 0) => codec.out = <<>>

\* a frame damaged in a payload bit has been unpacked and rejected
ChecksumSensitivityWitness ==
    /\ codec.pc = "unpacked"
    /\ codec.flipped > 3
    /\ codec.frame.data # <<>>
    /\ codec.out = <<>>

\* the DATA frames dispatched on channel c, and the frames handed to the data
\* callback on channel c, each in order
DataDispatched(c) ==
    SelectSeq(dispatched, LAMBDA e : e.frame.command = DATA /\ e.frame.channel = c)

DataDelivered(c) ==
    SelectSeq(events, LAMBDA e : e.kind = "data" /\ e.frame.channel = c)

\* DATA frames with sequences 0, 1, 2 were the first dispatched on channel c,
\* with a data callback set all along
FirstThreeInOrder(c) ==
    LET D == DataDispatched(c)
    IN  /\ Len(D) >= 3
        /\ \A i \in 1..3 : D[i].frame.sequence = i - 1
        /\ \A i \in 1..Len(D) : D[i].handler

\* C1: in-order delivery: when DATA frames with sequences 0, 1, 2 are
\* dispatched in that order on a channel of a fresh engine with a data
\* callback set, the callback has been called with exactly these three
\* frames' payloads, in that order, once each.
InOrderDelivery ==
    \A c \in Channels :
        FirstThreeInOrder(c) =>
            LET D == DataDispatched(c)
                R == DataDelivered(c)
            IN  /\ Len(R) >= 3
                /\ \A i \in 1..3 :
                       /\ R[i].frame = D[i].frame
                       /\ Count(R, LAMBDA e : e.frame = D[i].frame) = 1

\* sequences 0, 1, 2 were dispatched on a channel and all three delivered
InOrderDeliveryWitness ==
    \E c \in Channels : FirstThreeInOrder(c) /\ Len(DataDelivered(c)) = 3

\* the frame handed to _process_received_frame by the step just taken
IsDispatch == Len(dispatched') = Len(dispatched) + 1
DispatchedFrame == dispatched'[Len(dispatched')].frame
AckWrite(f) == Event("write", create_ack_frame(f.channel, f.sequence))

\* C2: duplicate suppression: dispatching a DATA frame whose sequence is not
\* the expected one writes one more ACK for (channel, sequence), calls no
\* data callback and leaves rx_sequence unchanged.
DuplicateSuppression ==
    [][(IsDispatch /\ DispatchedFrame.command = DATA
          /\ DispatchedFrame.sequence # rx_sequence[DispatchedFrame.channel])
       => (/\ events' = Append(events, AckWrite(DispatchedFrame))
           /\ rx_sequence' = rx_sequence)]_vars

\* a frame accepted once was dispatched a second time with the callback set:
\* two ACK writes for it, one call of the callback
DuplicateSuppressionWitness ==
    \E i, j \in 1..Len(dispatched) :
        /\ i < j
        /\ dispatched[i] = dispatched[j]
        /\ dispatched[i].handler
        /\ dispatched[i].frame.command = DATA
        /\ dispatched[i].frame.sequence = 0
        /\ Count(events, LAMBDA e : e = AckWrite(dispatched[i].frame)) = 2
        /\ Count(events, LAMBDA e : e = Event("data", dispatched[i].frame)) = 1

\* C3: every dispatched DATA frame, accepted or not, causes exactly one ACK
\* for its channel and sequence to be written straight to the transport,
\* the transmit queue untouched, and before the payload reaches the callback.
AckBeforeDelivery ==
    [][(IsDispatch /\ DispatchedFrame.command = DATA)
       => (/\ tx_queue' = tx_queue
           /\ \/ events' = Append(events, AckWrite(DispatchedFrame))
              \/ events' = events \o <<AckWrite(DispatchedFrame),
                                       Event("data", DispatchedFrame)>>)]_vars

\* an accepted frame: its ACK write is followed at once by its delivery
AckBeforeDeliveryWitness ==
    \E i \in 1..(Len(events) - 1) :
        /\ events[i].kind = "write"
        /\ events[i].frame.command = ACK
        /\ events[i + 1].kind = "data"
        /\ events[i + 1].frame.channel = events[i].frame.channel
        /\ events[i + 1].frame.sequence = events[i].frame.sequence

\* the writes of frame f to the transport, and the calls of a failure
\* callback for it
Writes(f) == Count(events, LAMBDA e : e = Event("write", f))
FailureCalls(f) == Count(events, LAMBDA e : e = Event("failure", f))

\* frame f was submitted and accepted, has left the pending table, and no
\* ACK or NACK was ever dispatched for it
GivenUp(f) ==
    /\ f.command = DATA
    /\ f.sequence < tx_sequence[f.channel]
    /\ ~PendingHas(pending_acks, PendingKey(f.channel, f.sequence))
    /\ \A i \in 1..Len(dispatched) :
           ~(/\ dispatched[i].frame.command \in {ACK, NACK}
             /\ dispatched[i].frame.channel = f.channel
             /\ dispatched[i].frame.sequence = f.sequence)

\* C4: retry and give-up: a submitted DATA frame that gets no ACK or NACK is
\* retransmitted by the sweep exactly max_retries times, and when its pending
\* entry is then removed the failure callback has fired exactly once for it.
RetryGiveUp ==
    \A i \in 1..Len(tx_queue) :
        GivenUp(tx_queue[i][2]) =>
            /\ Writes(tx_queue[i][2]) = max_retries
            /\ FailureCalls(tx_queue[i][2]) = 1

\* C5: send path liveness: while the engine runs, a frame placed on the
\* transmit queue is eventually taken from it.
SendPathLiveness ==
    (running /\ tx_queue # <<>>) ~> (tx_queue = <<>> \/ ~running)

\* the example frame was the one frame submitted, an ACK for it was
\* dispatched and took its pending entry away; nothing else was dispatched
ExampleAcked ==
    /\ Len(tx_queue) = 1
    /\ tx_queue[1][2] = create_data_frame(0, <<72>>, NORMAL, 0)
    /\ tx_sequence[0] = 1
    /\ dispatched # <<>>
    /\ \A i \in 1..Len(dispatched) : dispatched[i].frame = create_ack_frame(0, 0)
    /\ ~PendingHas(pending_acks, PendingKey(0, 0))
    /\ stats.timeouts = 0

\* C6: example scenario: after submit(0, payload, NORMAL) on a fresh engine
\* and the receipt of ACK(0, 0), the pending table is empty and frames_tx has
\* grown by exactly 1.
ExampleScenario ==
    ExampleAcked => (pending_acks = <<>> /\ stats.frames_tx = 1)

\* C7: priority ordering: once a batch has been enqueued, no frame is taken
\* from the transmit queue while a frame of higher priority is still queued.
PriorityOrdering ==
    \A i \in 1..Len(drained), j \in 1..Len(tx_queue) :
        drained[i].ok => tx_queue[j][2].priority <= drained[i].frame.priority

\* position of frame f in submission order
Submitted(f) == PendingIndex(pending_acks, PendingKey(f.channel, f.sequence))

\* C8: queue tie-break: enqueuing always succeeds, and frames of equal
\* priority from different channels leave the queue in the order they were
\* enqueued.
QueueTieBreak ==
    /\ result # "TypeError"
    /\ \A i, j \in 1..Len(drained) :
           (/\ i < j
            /\ drained[i].ok /\ drained[j].ok
            /\ drained[i].frame.priority = drained[j].frame.priority
            /\ drained[i].frame.channel # drained[j].frame.channel)
           => Submitted(drained[i].frame) < Submitted(drained[j].frame)

\* the frames handed to the dispatcher, in order
DispatchedFrames == [i \in 1..Len(dispatched) |-> dispatched[i].frame]

\* C11: resynchronization: once a stream of garbage, frame A, garbage,
\* frame B has been read, exactly the frames A and B have been dispatched.
Resynchronization ==
    \A s \in ResyncStreams :
        (/\ serial_port.data = StreamBytes(s)
         /\ serial_port.pos = Len(serial_port.data))
        => DispatchedFrames = <<s.A, s.B>>

\* the step is the call send_data(channel, data, priority)
SubmitCall(channel, data, priority) ==
    /\ send_data(channel, data, priority)
    /\ UNCHANGED <<rx_sequence, stats, now, events, dispatched>>

\* C12: send_data with a channel number of max_channels or more returns
\* False and leaves tx_sequence, pending_acks and tx_queue unchanged; with a
\* channel below max_channels it returns True.
SubmitChannelCheck ==
    [][\A channel \in SubmitChannels, data \in SubmitPayloads,
          priority \in SubmitPriorities :
           SubmitCall(channel, data, priority) =>
               IF channel >= max_channels
               THEN /\ result' = "False"
                    /\ UNCHANGED <<tx_sequence, pending_acks, tx_queue>>
               ELSE result' = "True"]_vars

\* C13: submitting a payload longer than the maximum frame size fails: no
\* sequence number is consumed, no pending entry and no queue entry is made.
PayloadTooLong ==
    [][\A channel \in Channels, priority \in SubmitPriorities :
           SubmitCall(channel, LongPayload, priority) =>
               /\ result' # "True"
               /\ UNCHANGED <<tx_sequence, pending_acks, tx_queue>>]_vars

\* the step is a call of send_data that returned True
AcceptedSubmit ==
    /\ Len(tx_queue') = Len(tx_queue) + 1
    /\ result' = "True"

\* C14: sequence allocation: an accepted submit on a channel takes the
\* channel's counter value as the sequence of its DATA frame and advances
\* that counter alone by one modulo 256 (255 is followed by 0), so that from
\* a fresh engine the n-th one carries n mod 256; right afterwards the
\* pending table holds that frame under (channel, sequence) with retry
\* count 0, and the frame is one more entry of the transmit queue.
SequenceAllocation ==
    [][AcceptedSubmit =>
          \E c \in 0..(max_channels - 1) :
              LET seq == tx_sequence[c]
                  key == PendingKey(c, seq)
              IN  /\ tx_sequence' = [tx_sequence EXCEPT ![c] = (seq + 1) % 256]
                  /\ PendingHas(pending_acks', key)
                  /\ LET e == PendingGet(pending_acks', key)
                         item == <<priority_value(e.frame.priority, seq), e.frame>>
                     IN  /\ e.retries = 0
                         /\ e.timestamp = now
                         /\ e.frame.command = DATA
                         /\ e.frame.channel = c
                         /\ e.frame.sequence = seq
                         /\ e.frame.crc = calculate_crc(e.frame)
                         /\ Count(tx_queue', LAMBDA q : q = item)
                                = Count(tx_queue, LAMBDA q : q = item) + 1]_vars

\* channel 0 went through 254, 255 and 0: three more submits were accepted,
\* the last one with sequence 0 again
SequenceAllocationWitness ==
    /\ tx_sequence[0] = 1
    /\ tx_sequence[1] = 0
    /\ Len(tx_queue) = WrapStart + 3
    /\ Len(pending_acks) = 256
    /\ PendingGet(pending_acks, PendingKey(0, 255)).retries = 0

\* the pending entry a dispatched ACK or NACK refers to
DispatchedKey == PendingKey(DispatchedFrame.channel, DispatchedFrame.sequence)

\* C15: a NACK for a pending (channel, sequence) with retry count below
\* max_retries makes the original frame be written at once, past the queue,
\* the retry count grow by one and the timestamp become now; with the retry
\* count at max_retries nothing is written, the entry is removed and the
\* failure callback is called for the frame.
OnNack ==
    [][(/\ IsDispatch
        /\ DispatchedFrame.command = NACK
        /\ PendingHas(pending_acks, DispatchedKey))
       => LET e == PendingGet(pending_acks, DispatchedKey)
          IN  IF e.retries < max_retries
              THEN /\ events' = Append(events, Event("write", e.frame))
                   /\ tx_queue' = tx_queue
                   /\ PendingHas(pending_acks', DispatchedKey)
                   /\ PendingGet(pending_acks', DispatchedKey)
                          = [e EXCEPT !.retries = @ + 1, !.timestamp = now]
              ELSE /\ events' = Append(events, Event("failure", e.frame))
                   /\ ~PendingHas(pending_acks', DispatchedKey)]_vars

\* C16: an ACK for (channel, sequence) removes the pending entry with that
\* key and no other; an ACK or NACK whose key has no pending entry leaves
\* the pending table, the sequence counters and the transmit queue as they
\* were and writes nothing to the transport.
AbsentKeyNoOp ==
    [][(IsDispatch /\ DispatchedFrame.command \in {ACK, NACK})
       => /\ (DispatchedFrame.command = ACK) =>
                 pending_acks' = SelectSeq(pending_acks, LAMBDA e : e.key # DispatchedKey)
          /\ ~PendingHas(pending_acks, DispatchedKey) =>
                 /\ pending_acks' = pending_acks
                 /\ UNCHANGED <<tx_sequence, rx_sequence, tx_queue, events>>]_vars

\* with (0, 0) and (0, 1) pending and nothing ever submitted on channel 1,
\* an ACK for (1, 0) changed nothing and an ACK for (0, 0) left (0, 1) alone
AbsentKeyNoOpWitness ==
    /\ tx_sequence[0] = 2
    /\ tx_sequence[1] = 0
    /\ DispatchedFrames = <<create_ack_frame(1, 0), create_ack_frame(0, 0)>>
    /\ Len(pending_acks) = 1
    /\ pending_acks[1].key = PendingKey(0, 1)
    /\ events = <<>>

\* C17: when stop() is called while entries are pending, each of them is
\* flushed to the transport or reported to the application by that call.
ShutdownReporting ==
    [][(running /\ ~running')
       => \A i \in 1..Len(pending_acks) :
              \E j \in (Len(events) + 1)..Len(events') :
                  events'[j].frame = pending_acks[i].frame]_vars

\* C18: once a transport read or write has raised an error inside the
\* receive task, the receive loop does nothing more: no further read,
\* dispatch, sweep or transport call.
TransportFailureFatal ==
    [][serial_port.errors # <<>>
       => UNCHANGED <<buffer, dispatched, events, stats, serial_port>>]_vars

\* send_data stands between its read of tx_sequence and its insertion into
\* pending_acks; _check_timeouts stands inside its pass over pending_acks
InSubmit == pc.app.at \in {"read", "put", "advanced"}
InSweep == pc.rx.at \in {"loop", "delete"}

\* C19: mutual exclusion: a submit and the receive task's sweep are never
\* inside their accesses to the sequence counters and the pending table at
\* the same time.
MutualExclusion == ~(InSubmit /\ InSweep)

\* C20: no step makes any of the counters frames_tx, frames_rx, frames_ack
\* (ACKs sent), frames_nack (NACKs received), crc_errors, timeouts, retries
\* smaller.
StatsMonotonic ==
    [][\A k \in DOMAIN stats : stats'[k] >= stats[k]]_vars

\* writes, receipts, ACKs, NACKs, retries and a give-up have been counted,
\* and the engine has been stopped since
StatsMonotonicWitness ==
    /\ ~running
    /\ stats.frames_tx > 0
    /\ stats.frames_rx > 0
    /\ stats.frames_ack > 0
    /\ stats.frames_nack > 0
    /\ stats.retries > 0
    /\ stats.timeouts > 0

\* the bytes returned by the read of the step just taken, and the buffer
\* the receive loop then scans
ReadBytes == SubSeq(serial_port.data, serial_port.pos + 1, serial_port'.pos)
Scanned ==
    LET buf == buffer \o ReadBytes
    IN  SubSeq(buf, FindSync(buf, 1), Len(buf))

\* the step is a read after which the first candidate, cut from a sync byte
\* to the next one, fails to decode
CorruptCandidate ==
    /\ serial_port'.pos > serial_port.pos
    /\ FindSync(buffer \o ReadBytes, 1) # 0
    /\ Len(Scanned) >= MinFrameSize
    /\ FindSync(Scanned, 2) # 0
    /\ unpack(SubSeq(Scanned, 1, FindSync(Scanned, 2) - 1)) = <<>>

\* C21: corrupt frames are counted: a read whose candidate frame fails to
\* decode (checksum mismatch or fewer than 5 bytes) makes crc_errors grow.
CorruptCounted ==
    [][CorruptCandidate => stats'.crc_errors > stats.crc_errors]_vars

\* C22: no command aliasing: a frame packed with command CONFIG, RESET, TEST
\* or BEACON, once unpacked and dispatched, is only counted: no transport
\* write, no callback, the pending table and rx_sequence as they were.
NoCommandAliasing ==
    [][(/\ codec.pc = "unpacked"
        /\ codec'.pc = "dispatched"
        /\ codec.frame.command \in {CONFIG, RESET, TEST, BEACON})
       => /\ events' = events
          /\ pending_acks' = pending_acks
          /\ rx_sequence' = rx_sequence
          /\ stats' = [stats EXCEPT !.frames_rx = @ + 1]]_vars

\* the fields the 15-byte layout gives for a payload, defaulted when the
\* payload is shorter than the layout
StatusLayout(data) ==
    IF Len(data) >= 15 THEN unpack_status(data) ELSE status_defaults

\* C23: STATUS dispatch: with a status callback set, every dispatched STATUS
\* frame makes exactly one call of it, for the frame's channel; a payload of
\* 15 bytes or more is reported as parsed, a shorter one as the defaults.
StatusDispatch ==
    [][(IsDispatch /\ DispatchedFrame.command = STATUS /\ on_status_response)
       => events' = Append(events, [kind |-> "status", frame |-> DispatchedFrame,
                                    status |-> StatusLayout(DispatchedFrame.data)])]_vars

\* every byte that arrived on the serial port has been read
AllRead == serial_port.pos = Len(serial_port.data)

\* C24: spurious sync bytes do not lose frames: a valid packed frame holding
\* a 0x00 byte after its leading sync byte (packed byte, sequence byte,
\* payload or checksum), read and followed by a sync byte, is dispatched.
SpuriousSyncKept ==
    \A s \in FeedStreams :
        (/\ s.lead = <<>>
         /\ s.frame \in ZeroFrames
         /\ serial_port.data = FeedBytes(s)
         /\ AllRead)
        => DispatchedFrames = <<s.frame>>

\* C25: retry within one feed: when a candidate fails to decode, one byte is
\* dropped and the scan goes on over the bytes already buffered, so a valid
\* frame that stands complete in the buffer, a sync byte behind it, has been
\* dispatched once the bytes have been read, with no more input needed.
RetryWithinFeed ==
    \A s \in FeedStreams :
        (/\ s.frame \in CleanFrames
         /\ serial_port.data = FeedBytes(s)
         /\ AllRead)
        => DispatchedFrames = <<s.frame>>

\* the number of bytes returned by the read of the step just taken
ReadLen == serial_port'.pos - serial_port.pos

\* C26: bounded receive buffer: while no valid frame completes, the buffer
\* holds after every read at most the 256-byte maximum plus the bytes of
\* that read, and a read that clears a buffer grown beyond the maximum
\* leaves a record of the framing error.
BoundedBuffer ==
    [][(ReadLen > 0 /\ dispatched' = <<>>)
       => /\ Len(buffer') <= MaxBufferedFrame + ReadLen
          /\ (Len(buffer) + ReadLen > MaxBufferedFrame /\ buffer' = <<>>)
                 => (stats' # stats \/ events' # events)]_vars

\* C27: PendingAck lifecycle: the pending table never holds two entries for
\* one (channel, sequence), and an entry leaves it only by a dispatched ACK
\* for its key or by retry exhaustion with a failure event for its frame; in
\* particular a later submit on the channel, 256 sequence numbers on, does
\* not replace or drop an entry that is still pending.
PendingLifecycle ==
    [][/\ \A i, j \in 1..Len(pending_acks') :
              pending_acks'[i].key = pending_acks'[j].key => i = j
       /\ \A i \in 1..Len(pending_acks) :
              LET e == pending_acks[i]
              IN  \/ /\ PendingHas(pending_acks', e.key)
                     /\ PendingGet(pending_acks', e.key).frame = e.frame
                  \/ /\ IsDispatch
                     /\ DispatchedFrame.command = ACK
                     /\ DispatchedKey = e.key
                  \/ /\ e.retries >= max_retries
                     /\ FailureCalls(e.frame)' = FailureCalls(e.frame) + 1]_vars

\* C28: codec boundary: unpack returns a frame only for a byte string of at
\* least 5 bytes whose last two bytes, big-endian, are the CRC-16/CCITT
\* (polynomial 0x1021, start value 0xFFFF) of the bytes before them, and
\* None for every other string; so every frame handed to the dispatcher
\* carries the checksum computed afresh over it.
CodecBoundary ==
    /\ (codec.pc \in {"unpacked", "dispatched"} /\ codec.out # <<>>) =>
           LET n == Len(codec.bytes)
           IN  /\ n >= MinFrameSize
               /\ codec.bytes[n - 1] * 256 + codec.bytes[n]
                      = crc_bytes(65535, SubSeq(codec.bytes, 1, n - 2), 1)
    /\ \A i \in 1..Len(dispatched) :
           dispatched[i].frame.crc = calculate_crc(dispatched[i].frame)

\* a string of six bytes with a matching checksum was unpacked and the
\* frame, one byte of payload in it, dispatched
CodecBoundaryWitness ==
    /\ codec.pc = "dispatched"
    /\ Len(codec.bytes) = 6
    /\ Len(dispatched) = 1
    /\ dispatched[1].frame.data = <<codec.bytes[4]>>

\* the writes to the transport of frames with a given command
WritesOf(command) ==
    Count(events, LAMBDA e : e.kind = "write" /\ e.frame.command = command)

StopHalts ==
    /\ (pc.rx.at # "idle" /\ ~running) ~> (pc.rx.at = "exited")
    /\ [][pc.rx.at = "exited"
          => /\ pc'.rx = pc.rx
             /\ UNCHANGED <<buffer, dispatched, events, stats, serial_port>>]_vars

\* the loop has dispatched a frame and retransmitted another, and has ended
\* after stop() with that frame still pending
StopHaltsWitness ==
    /\ pc.rx.at = "exited"
    /\ ~running
    /\ dispatched # <<>>
    /\ stats.retries > 0
    /\ pending_acks # <<>>

\* C31: bounded retransmission: every pending entry's retry count is within
\* 0..max_retries, the frame of a pending entry has been written to the
\* transport exactly as often as its retry count says, retransmissions after
\* a NACK and after a timeout counted together, and no submitted frame has
\* been written more than max_retries times.
BoundedRetransmission ==
    /\ \A i \in 1..Len(pending_acks) :
          /\ pending_acks[i].retries \in 0..max_retries
          /\ Writes(pending_acks[i].frame) = pending_acks[i].retries
    /\ \A i \in 1..Len(tx_queue) : Writes(tx_queue[i][2]) <= max_retries

\* one frame was retransmitted max_retries times, twice after a NACK and
\* once after a timeout
BoundedRetransmissionWitness ==
    /\ tx_sequence[0] = 1
    /\ tx_sequence[1] = 0
    /\ PendingHas(pending_acks, PendingKey(0, 0))
    /\ PendingGet(pending_acks, PendingKey(0, 0)).retries = max_retries
    /\ stats.retries = max_retries
    /\ DispatchedFrames = <<create_nack_frame(0, 0), create_nack_frame(0, 0)>>

\* C32: concurrent submits are race-free: when send_data has returned True
\* in two application threads that ran concurrently on the same channel, the
\* two frames carry distinct sequence numbers, tx_sequence of the channel
\* has advanced by two, and each frame has its own pending entry.
ConcurrentSubmits ==
    (/\ pc.app.at = "returned"
     /\ pc.app2.at = "returned"
     /\ pc.app.channel = pc.app2.channel) =>
        /\ pc.app.seq # pc.app2.seq
        /\ tx_sequence[pc.app.channel] = 2
        /\ \A t \in {"app", "app2"} :
              /\ PendingHas(pending_acks, PendingKey(pc[t].channel, pc[t].seq))
              /\ PendingGet(pending_acks, PendingKey(pc[t].channel, pc[t].seq)).frame
                    = pc[t].frame

\* C33: gap-free ordered delivery: with a data handler registered at every
\* dispatch, on every channel the k-th payload handed to the handler comes
\* from a DATA frame with sequence (k - 1) mod 256, and rx_sequence of the
\* channel is the number of payloads delivered on it modulo 256.
GapFreeDelivery ==
    (\A i \in 1..Len(dispatched) : dispatched[i].handler) =>
        \A c \in Channels :
            LET R == DataDelivered(c)
            IN  /\ \A k \in 1..Len(R) :
                      /\ R[k].frame.command = DATA
                      /\ R[k].frame.sequence = (k - 1) % 256
                /\ rx_sequence[c] = Len(R) % 256

\* channel 0 has delivered sequences 0..255 and then sequence 0 again, and
\* channel 1 has delivered its first frame
GapFreeDeliveryWitness ==
    /\ Len(DataDelivered(0)) = 257
    /\ rx_sequence[0] = 1
    /\ Len(DataDelivered(1)) = 1
    /\ rx_sequence[1] = 1

\* C34: acknowledged implies delivered: whenever the dispatch of an ACK
\* removes the sender's pending entry for (channel, sequence), the receiving
\* engine has handed that frame's payload to its data handler.
AckedImpliesDelivered ==
    [][(/\ IsDispatch
        /\ DispatchedFrame.command = ACK
        /\ PendingHas(pending_acks, DispatchedKey)) =>
           \E i \in 1..Len(serial_port.peer.events) :
               serial_port.peer.events[i] =
                   Event("data", PendingGet(pending_acks, DispatchedKey).frame)]_vars

\* the place of frame f among the submissions on its channel that followed
\* the first WrapStart ones
SubmitOrder(f) == (f.sequence + 256 - WrapStart) % 256

\* C35: per-channel FIFO in the queue: of two frames of the same channel and
\* priority, the one submitted first leaves the transmit queue first, also
\* when the sequence number wraps from 255 to 0 between them.
QueueFifo ==
    \A i, j \in (WrapStart + 1)..Len(drained) :
        (/\ i < j
         /\ drained[i].ok
         /\ drained[j].ok
         /\ drained[i].frame.channel = drained[j].frame.channel
         /\ drained[i].frame.priority = drained[j].frame.priority) =>
            SubmitOrder(drained[i].frame) < SubmitOrder(drained[j].frame)

\* entries that have left the pending table where only the sweep removes
\* them: every accepted submit stored one
RemovedBySweep ==
    LET submitted == Cardinality({<<c, s>> \in Channels \X (0..MaxThreadSends) :
                                      s < tx_sequence[c]})
    IN  submitted - Len(pending_acks)

\* C36: timeout accounting: whenever neither a submit nor a sweep is under
\* way, the timeouts counter is the number of pending entries that the sweep
\* has removed for retry exhaustion, also after a sweep that was cut short.
TimeoutAccounting ==
    (pc.app.at = "idle" /\ pc.rx.at = "idle") => stats.timeouts = RemovedBySweep

\* the events that the step added
NewEvents == SubSeq(events', Len(events) + 1, Len(events'))

\* C37: control frames are never acknowledged: the dispatch of an ACK or a
\* STATUS frame writes nothing to the transport, and the dispatch of a NACK
\* writes either nothing or, once, the DATA frame that is pending under the
\* NACK's (channel, sequence); no dispatch of a control frame writes an ACK.
ControlNeverAcked ==
    [][(IsDispatch /\ DispatchedFrame.command \in {ACK, NACK, STATUS}) =>
           LET w == SelectSeq(NewEvents, LAMBDA e : e.kind = "write")
           IN  /\ \A i \in 1..Len(w) : w[i].frame.command # ACK
               /\ DispatchedFrame.command # NACK => w = <<>>
               /\ DispatchedFrame.command = NACK =>
                     \/ w = <<>>
                     \/ /\ PendingHas(pending_acks, DispatchedKey)
                        /\ w = <<Event("write", PendingGet(pending_acks, DispatchedKey).frame)>>
                        /\ w[1].frame.command = DATA
                        /\ w[1].frame.channel = DispatchedFrame.channel
                        /\ w[1].frame.sequence = DispatchedFrame.sequence]_vars

\* a NACK has made the pending frame be retransmitted, a STATUS frame has
\* been handed to the status handler, then an ACK has removed the entry, and
\* the retransmission is the only write so far
ControlNeverAckedWitness ==
    /\ on_status_response
    /\ DispatchedFrames = <<create_nack_frame(0, 0),
                            with_crc(SixPackFrame(STATUS, 0, 0, 0, StatusReport \o <<0>>, 0)),
                            create_ack_frame(0, 0)>>
    /\ Count(events, LAMBDA e : e.kind = "status") = 1
    /\ SelectSeq(events, LAMBDA e : e.kind = "write")
           = <<Event("write", create_data_frame(0, <<72>>, NORMAL, 0))>>
    /\ pending_acks = <<>>

\* C38: no retransmission after acknowledgment: the dispatch of an ACK
\* leaves no pending entry under its (channel, sequence); a step writes a
\* DATA frame to the transport only if that frame is the one pending under
\* its key, so neither a sweep nor a NACK writes a frame whose entry an ACK
\* has removed; and a key that is not pending becomes pending only by a
\* submit that is given that key.
NoRetransmitAfterAck ==
    [][/\ (IsDispatch /\ DispatchedFrame.command = ACK) =>
              ~PendingHas(pending_acks', DispatchedKey)
       /\ \A i \in 1..Len(NewEvents) :
              (NewEvents[i].kind = "write" /\ NewEvents[i].frame.command = DATA) =>
                  LET f == NewEvents[i].frame
                      key == PendingKey(f.channel, f.sequence)
                  IN  /\ PendingHas(pending_acks, key)
                      /\ PendingGet(pending_acks, key).frame = f
       /\ \A c \in Channels, s \in 0..MaxQueue :
              (/\ PendingHas(pending_acks', PendingKey(c, s))
               /\ ~PendingHas(pending_acks, PendingKey(c, s))) =>
                  /\ tx_sequence[c] = s
                  /\ tx_sequence'[c] = (s + 1) % 256
                  /\ Len(tx_queue') = Len(tx_queue) + 1]_vars

\* a frame was retransmitted once after a timeout and then acknowledged; a
\* NACK for its key was dispatched after the ACK and wrote nothing
NoRetransmitAfterAckWitness ==
    /\ tx_sequence[0] = 1
    /\ tx_sequence[1] = 0
    /\ DispatchedFrames = <<create_ack_frame(0, 0), create_nack_frame(0, 0)>>
    /\ pending_acks = <<>>
    /\ Writes(create_data_frame(0, <<72>>, NORMAL, 0)) = 1
    /\ stats.frames_tx = 1
    /\ stats.frames_nack = 1

====
